---- MODULE Spec2Model ----
(***************************************************************************)
(* Ladder optimizer of src/utils/optionsMath.ts: combinations,             *)
(* combinationsWithRep, scoreLadder, rankLadders and buildOptimalLadder;   *)
(* the trade list, the computed ladder and its highlights in               *)
(* src/components/BTCCoveredYields.tsx; fetchMorphoRates of                *)
(* src/services/morphoProvider.ts.                                         *)
(*                                                                         *)
(* JavaScript numbers are modelled as exact rationals <<n, d>> with d > 0  *)
(* in lowest terms, so that two numbers are equal iff their pairs are.     *)
(* Floating-point rounding is outside the model.                           *)
(***************************************************************************)
EXTENDS Integers, Sequences, FiniteSets, TLC

VARIABLES pc, trades, dvolVal, numLegs, allowRep, ret, ret2, trades0,
          cands, ranked, arr, kk, groups, priceCall, priceOut, sweep,
          stack, pending, opts, maxPexCap, closure, response, data,
          settled

vars == <<pc, trades, dvolVal, numLegs, allowRep, ret, ret2, trades0,
          cands, ranked, arr, kk, groups, priceCall, priceOut, sweep,
          stack, pending, opts, maxPexCap, closure, response, data,
          settled>>

\* The state of the suggested-trades effect and of fetchMorphoRates.
feedVars == <<opts, maxPexCap, closure>>
fetchVars == <<response, data, settled>>

(***************************************************************************)
(* Bounds of the model.                                                    *)
(***************************************************************************)
MaxTrades == 2
MaxBatch == 3
MaxArr == 3
MaxK == 4
MaxLegs == 2
MaxPool == 17

(***************************************************************************)
(* Rational arithmetic standing for the JavaScript number operations.      *)
(***************************************************************************)
Abs(x) == IF x < 0 THEN -x ELSE x

RECURSIVE GCD(_, _)
GCD(a, b) == IF b = 0 THEN a ELSE GCD(b, a % b)

\* A zero denominator stands for what a division by zero leaves: <<1, 0>>
\* and <<-1, 0>> for Infinity and -Infinity, <<0, 0>> for NaN.
Sgn(n) == IF n > 0 THEN 1 ELSE IF n < 0 THEN -1 ELSE 0
IsNaN(x) == x[1] = 0 /\ x[2] = 0
Finite(x) == x[2] > 0

Rat(n, d) ==
    IF d = 0 THEN <<Sgn(n), 0>>
    ELSE LET s == IF d < 0 THEN -1 ELSE 1
             g == GCD(Abs(n), Abs(d))
         IN  <<(s * n) \div g, (s * d) \div g>>

RInt(i) == <<i, 1>>

\* The operations reduce by common divisors before they multiply, so that
\* intermediate products stay as small as the results allow.
LCM(a, b) == (a \div GCD(a, b)) * b

RAdd(a, b) ==
    IF a[2] = 0 /\ b[2] = 0 THEN (IF a[1] = b[1] THEN a ELSE <<0, 0>>)
    ELSE IF a[2] = 0 THEN a
    ELSE IF b[2] = 0 THEN b
    ELSE LET d == LCM(a[2], b[2])
         IN  Rat(a[1] * (d \div a[2]) + b[1] * (d \div b[2]), d)
RSub(a, b) == RAdd(a, <<-b[1], b[2]>>)
RMul(a, b) ==
    IF a[2] = 0 \/ b[2] = 0 THEN <<Sgn(a[1]) * Sgn(b[1]), 0>>
    ELSE LET g1 == GCD(Abs(a[1]), b[2])
             g2 == GCD(Abs(b[1]), a[2])
         IN  Rat((a[1] \div g1) * (b[1] \div g2),
                 (a[2] \div g2) * (b[2] \div g1))
Recip(b) ==
    IF b[2] = 0 THEN (IF b[1] = 0 THEN <<0, 0>> ELSE <<0, 1>>)
    ELSE Rat(b[2], b[1])
RDiv(a, b) == RMul(a, Recip(b))
RLt(a, b) ==
    IF a[2] = 0 /\ b[2] = 0 THEN a[1] < b[1] /\ a[1] # 0 /\ b[1] # 0
    ELSE LET g == GCD(a[2], b[2])
         IN  a[1] * (b[2] \div g) < b[1] * (a[2] \div g)
RLe(a, b) == ~IsNaN(a) /\ ~IsNaN(b) /\ ~RLt(b, a)
\* Math.max and Math.min return NaN when an argument is NaN.
RMax(a, b) ==
    IF IsNaN(a) THEN a ELSE IF IsNaN(b) THEN b
    ELSE IF RLt(a, b) THEN b ELSE a
RMin(a, b) ==
    IF IsNaN(a) THEN a ELSE IF IsNaN(b) THEN b
    ELSE IF RLt(b, a) THEN b ELSE a
RZero == <<0, 1>>
RTen == <<10, 1>>

\* x > 1e-10 and x < 1e-10 for a rational x = n/d, i.e. n * 10^10 > d and
\* n * 10^10 < d, computed in two steps of 10^5 to stay inside the integers
\* TLC has (a numerator of 20000 or more already exceeds every denominator).
GtEps(x) ==
    x[1] > 0 /\ (x[1] >= 20000 \/ x[1] * 100000 > (x[2] \div 100000))
LtEps(x) ==
    x[1] <= 0 \/ (x[1] < 20000 /\ x[1] * 100000 <= ((x[2] - 1) \div 100000))

(***************************************************************************)
(* Array helpers: Math.max(...xs), Math.min(...xs), reduce, map, sort.     *)
(***************************************************************************)
\* A sequence built by [i \in 1..n |-> e] made into a tuple of values, so
\* that each element is computed once.
Arr(f) == f \o <<>>

RECURSIVE RSum(_)
RSum(xs) == IF xs = <<>> THEN RZero ELSE RAdd(Head(xs), RSum(Tail(xs)))

\* Variant: the first element instead of the largest.
RMaxOfFirst(xs) == xs[1]

\* Math.max(...xs) and Math.min(...xs) of a non-empty array.
RMaxOf(xs) ==
    CHOOSE x \in {xs[i] : i \in 1..Len(xs)} :
        \A i \in 1..Len(xs) : RLe(xs[i], x)

\* Variant: the first element instead of the smallest.
RMinOfFirst(xs) == xs[1]

RMinOf(xs) ==
    CHOOSE x \in {xs[i] : i \in 1..Len(xs)} :
        \A i \in 1..Len(xs) : RLe(x, xs[i])

\* Array.prototype.sort with comparator (a, b) => key(b) - key(a): a stable
\* sort.  Element i lands after every element with a strictly larger key
\* and after the earlier elements with an equal key.
SortPos(keys, i) ==
    1 + Cardinality({j \in 1..Len(keys) :
                        \/ RLt(keys[i], keys[j])
                        \/ (j < i /\ keys[j] = keys[i])})

SortDesc(s, keys) ==
    LET ks == Arr(keys)
        pos == Arr([i \in 1..Len(s) |-> SortPos(ks, i)])
    IN  Arr([p \in 1..Len(s) |-> s[CHOOSE i \in 1..Len(s) : pos[i] = p]])

\* Variant: no cap.
SliceAll(s, cap) == s

Slice(s, cap) == SubSeq(s, 1, IF Len(s) < cap THEN Len(s) ELSE cap)

(***************************************************************************)
(* combinations / combinationsWithRep                                      *)
(***************************************************************************)
ConsAll(first, cs) == Arr([i \in 1..Len(cs) |-> <<first>> \o cs[i]])

\* Variant: the length guard off by one.
RECURSIVE combinationsGuardLe(_, _)
combinationsGuardLe(a, k) ==
    IF k = 0 THEN << <<>> >>
    ELSE IF Len(a) <= k THEN <<>>
    ELSE ConsAll(Head(a), combinationsGuardLe(Tail(a), k - 1))
             \o combinationsGuardLe(Tail(a), k)

\* Variant: the first element appended after the chosen rest.
RECURSIVE combinationsFirstLast(_, _)
combinationsFirstLast(a, k) ==
    IF k = 0 THEN << <<>> >>
    ELSE IF Len(a) < k THEN <<>>
    ELSE Arr([i \in 1..Len(combinationsFirstLast(Tail(a), k - 1)) |->
                combinationsFirstLast(Tail(a), k - 1)[i] \o <<Head(a)>>])
             \o combinationsFirstLast(Tail(a), k)

RECURSIVE combinations(_, _)
combinations(a, k) ==
    IF k = 0 THEN << <<>> >>
    ELSE IF Len(a) < k THEN <<>>
    ELSE ConsAll(Head(a), combinations(Tail(a), k - 1))
             \o combinations(Tail(a), k)

\* Variant: the first branch recurses on the rest, so no element repeats.
RECURSIVE combinationsWithRepNoRepeat(_, _)
combinationsWithRepNoRepeat(a, k) ==
    IF k = 0 THEN << <<>> >>
    ELSE IF Len(a) = 0 THEN <<>>
    ELSE ConsAll(Head(a), combinationsWithRepNoRepeat(Tail(a), k - 1))
             \o combinationsWithRepNoRepeat(Tail(a), k)

RECURSIVE combinationsWithRep(_, _)
combinationsWithRep(a, k) ==
    IF k = 0 THEN << <<>> >>
    ELSE IF Len(a) = 0 THEN <<>>
    ELSE ConsAll(Head(a), combinationsWithRep(a, k - 1))
             \o combinationsWithRep(Tail(a), k)

(***************************************************************************)
(* normCdf, pEx, bsGreeks, putApyHedged (lines 6-44).  A number the exact   *)
(* arithmetic holds is <<v>>; a result of Math.log, Math.sqrt or Math.exp   *)
(* outside the tabulated exact cases (an irrational, infinite or NaN        *)
(* value) is <<>>, and so is everything computed from it.                   *)
(***************************************************************************)
a1 == <<254829592, 1000000000>>
a2 == <<-284496736, 1000000000>>
a3 == <<1421413741, 1000000000>>
a4 == <<-1453152027, 1000000000>>
a5 == <<1061405429, 1000000000>>
normP == <<3275911, 10000000>>

RAbs(x) == <<Abs(x[1]), x[2]>>
RNeg(x) == <<-x[1], x[2]>>
ROne == <<1, 1>>

NAdd(x, y) == IF x = <<>> \/ y = <<>> THEN <<>> ELSE <<RAdd(x[1], y[1])>>
NSub(x, y) == IF x = <<>> \/ y = <<>> THEN <<>> ELSE <<RSub(x[1], y[1])>>
NMul(x, y) == IF x = <<>> \/ y = <<>> THEN <<>> ELSE <<RMul(x[1], y[1])>>
\* x / y: a zero divisor gives Infinity or NaN.
NDiv(x, y) ==
    IF x = <<>> \/ y = <<>> THEN <<>>
    ELSE IF y[1][1] = 0 THEN <<>>
    ELSE <<RDiv(x[1], y[1])>>

MathExp(x) == IF x = <<RZero>> THEN <<ROne>> ELSE <<>>
MathLog(x) == IF x = <<ROne>> THEN <<RZero>> ELSE <<>>
MathSqrt(x) ==
    IF x = <<RZero>> THEN <<RZero>>
    ELSE IF x = <<ROne>> THEN <<ROne>>
    ELSE IF x = << <<1, 4>> >> THEN << <<1, 2>> >>
    ELSE <<>>

\* ((((a5 * t + a4) * t) + a3) * t + a2) * t + a1
normCdfPoly(t) ==
    RAdd(RMul(RAdd(RMul(RAdd(RMul(RAdd(RMul(a5, t), a4), t), a3), t),
                   a2), t), a1)

\* The result with the intermediate values of lines 8-9: tArg is the value
\* t is built from, expArg the argument of Math.exp.
normCdf(x) ==
    LET sign == IF RLt(x, RZero) THEN RInt(-1) ELSE ROne
        tArg == RAbs(x)
        t == RDiv(ROne, RAdd(ROne, RMul(normP, tArg)))
        expArg == RDiv(RMul(RNeg(x), x), RInt(2))
        e == MathExp(<<expArg>>)
    IN  [sign |-> sign, tArg |-> tArg, t |-> t, expArg |-> expArg,
         value |->
            IF e = <<>> THEN <<>>
            ELSE <<RMul(<<1, 2>>,
                     RAdd(ROne, RMul(sign,
                        RSub(ROne, RMul(RMul(normCdfPoly(t), t), e[1])))))>>]

\* Variant: the guard tests T < 0 and s < 0.
pExGuardLt(S, K, T, s, type) ==
    IF RLt(T, RZero) \/ RLt(s, RZero) THEN <<RZero>>
    ELSE LET d2 == NDiv(NSub(MathLog(NDiv(<<S>>, <<K>>)),
                             <<RMul(<<1, 2>>, RMul(RMul(s, s), T))>>),
                        NMul(<<s>>, MathSqrt(<<T>>)))
         IN  IF d2 = <<>> THEN <<>>
             ELSE IF type = "C" THEN normCdf(d2[1]).value
             ELSE normCdf(RNeg(d2[1])).value

pEx(S, K, T, s, type) ==
    IF RLe(T, RZero) \/ RLe(s, RZero) THEN <<RZero>>
    ELSE LET d2 == NDiv(NSub(MathLog(NDiv(<<S>>, <<K>>)),
                             <<RMul(<<1, 2>>, RMul(RMul(s, s), T))>>),
                        NMul(<<s>>, MathSqrt(<<T>>)))
         IN  IF d2 = <<>> THEN <<>>
             ELSE IF type = "C" THEN normCdf(d2[1]).value
             ELSE normCdf(RNeg(d2[1])).value

\* Math.PI and the normPdf of line 22.
MathPI == <<>>
normPdf(x) ==
    NDiv(MathExp(NMul(<< <<-1, 2>> >>, NMul(x, x))),
         MathSqrt(NMul(<<RInt(2)>>, MathPI)))

Greeks(delta, gamma, theta, vega) ==
    [delta |-> delta, gamma |-> gamma, theta |-> theta, vega |-> vega]

bsGreeks(S, K, T, sigma, type) ==
    IF RLe(T, RZero) \/ RLe(sigma, RZero)
    THEN Greeks(<<RZero>>, <<RZero>>, <<RZero>>, <<RZero>>)
    ELSE LET sqrtT == MathSqrt(<<T>>)
             d1 == NDiv(NAdd(MathLog(NDiv(<<S>>, <<K>>)),
                             <<RMul(<<1, 2>>, RMul(RMul(sigma, sigma), T))>>),
                        NMul(<<sigma>>, sqrtT))
             nPdfd1 == normPdf(d1)
             Nd1 == IF d1 = <<>> THEN <<>> ELSE normCdf(d1[1]).value
             delta == IF type = "C" THEN Nd1 ELSE NSub(Nd1, <<ROne>>)
             gamma == NDiv(nPdfd1, NMul(NMul(<<S>>, <<sigma>>), sqrtT))
             vega == NDiv(NMul(NMul(<<S>>, nPdfd1), sqrtT), <<RInt(100)>>)
             theta == NDiv(NDiv(NMul(<<RInt(-1)>>,
                                     NMul(NMul(<<S>>, <<sigma>>), nPdfd1)),
                                NMul(<<RInt(2)>>, sqrtT)), <<RInt(365)>>)
         IN  Greeks(delta, gamma, theta, vega)

putApyHedged(mp, fp, k, d) ==
    IF RLe(d, RZero) \/ RLe(k, RZero) THEN <<RZero>>
    ELSE LET premiumUsd == RMul(mp, fp)
         IN  <<RMul(RMul(RDiv(premiumUsd, k), RDiv(RInt(365), d)), RInt(100))>>

(***************************************************************************)
(* conditionalTailLoss.  The Black-Scholes quantities N(-d2) and           *)
(* K N(-d2) - S N(-d1) are real-valued functions of the leg's own fields;  *)
(* the leg carries their values as data (bsNd2, bsTail).                   *)
(***************************************************************************)
conditionalTailLoss(T, sigma, Nd2, tail) ==
    IF RLe(T, RZero) \/ RLe(sigma, RZero) THEN RZero
    ELSE IF LtEps(Nd2) THEN RZero
    ELSE RMax(RZero, tail)

(***************************************************************************)
(* scoreLadder (lines 94-131)                                              *)
(***************************************************************************)
\* dvolVal || 57, the nullable number held as a sequence: <<>> for null,
\* <<v>> for the number v.
Dv(dvol) == IF dvol = <<>> \/ dvol[1] = 0 THEN 57 ELSE dvol[1]

\* Line 116 reads legs[0].futuresPrice: a TypeError when legs is empty.
ScoreThrows(legs) == Len(legs) = 0

LegTail(l) ==
    conditionalTailLoss(Rat(l.dte, 365), Rat(l.markIv, 100), l.bsNd2, l.bsTail)

LegEv(l) ==
    RSub(RMul(RInt(l.premiumUsd), RSub(RInt(1), l.probExercise)),
         RMul(LegTail(l), l.probExercise))

scoreLadder(legs, dvol) ==
    LET n == Len(legs)
        dv == Dv(dvol)
        idx == 1..n
        totalEv == RSum([i \in idx |-> LegEv(legs[i])])
        totalRisk == RSum([i \in idx |->
                        RMul(legs[i].probExercise, RMax(RZero, LegTail(legs[i])))])
        totalPrem == RSum([i \in idx |-> RInt(legs[i].premiumUsd)])
        totalApy == RSum([i \in idx |-> RInt(legs[i].apy)])
        volEdgeSum == RSum([i \in idx |->
                        RDiv(RInt(legs[i].markIv - dv),
                             RInt(IF dv > 1 THEN dv ELSE 1))])
        thetaSum == RSum([i \in idx |-> Rat(legs[i].premiumUsd, legs[i].dte)])
        avgDte == RDiv(RSum([i \in idx |-> RInt(legs[i].dte)]), RInt(n))
        fp0 == RInt(legs[1].futuresPrice)
        avgApy == RDiv(totalApy, RInt(n))
        evAnnual == RMul(totalEv, RDiv(RInt(365), avgDte))
        volEdge == RDiv(volEdgeSum, RInt(n))
        thetaEff == thetaSum
        riskReturn == IF RLt(RZero, totalRisk) THEN RDiv(totalEv, totalRisk)
                      ELSE RZero
        maxPex == RMaxOf([i \in idx |-> legs[i].probExercise])
        probAllOTM == RSub(RInt(1), maxPex)
        avgLoss == RDiv(totalRisk, RMax(maxPex, <<1, 100>>))
        kelly == IF RLt(RZero, totalPrem)
                 THEN RMax(RZero, RSub(probAllOTM,
                              RDiv(RMul(maxPex, avgLoss), totalPrem)))
                 ELSE RZero
        strikes == [i \in idx |-> RInt(legs[i].strike)]
        diversification == RDiv(RSub(RMaxOf(strikes), RMinOf(strikes)), fp0)
        factors == <<evAnnual, RMax(RZero, volEdge), riskReturn, thetaEff,
                     kelly, diversification>>
    IN  [legs |-> legs, score |-> RZero, ev |-> totalEv, evAnnual |-> evAnnual,
         volEdge |-> volEdge, thetaEff |-> thetaEff, riskReturn |-> riskReturn,
         kelly |-> kelly, diversification |-> diversification,
         probAllOTM |-> probAllOTM, totalPrem |-> totalPrem, avgApy |-> avgApy,
         factors |-> factors]

(***************************************************************************)
(* rankLadders (lines 134-166)                                             *)
(***************************************************************************)
W == << <<3, 10>>, <<1, 5>>, <<1, 5>>, <<3, 20>>, <<1, 10>>, <<1, 20>> >>
factorNames == <<"Expected Value", "Vol Edge", "Risk/Return", "Theta",
                 "Kelly", "Diversification">>
nFactors == 6

\* mins[i] / maxs[i] after the loop of lines 143-148 over a non-empty batch:
\* Math.min(Infinity, x) = x and Math.max(-Infinity, x) = x start the folds.
Mins(candidates) ==
    Arr([i \in 1..nFactors |->
        RMinOf(Arr([c \in 1..Len(candidates) |-> candidates[c].factors[i]]))])
Maxs(candidates) ==
    Arr([i \in 1..nFactors |->
        RMaxOf(Arr([c \in 1..Len(candidates) |-> candidates[c].factors[i]]))])

\* Variant: no guard on the range.
NormUnguarded(v, mn, mx) == RDiv(RSub(v, mn), RSub(mx, mn))

\* Variant: a tied factor counts 0 instead of the neutral 0.5.
NormTiedZero(v, mn, mx) ==
    LET range == RSub(mx, mn)
    IN  IF GtEps(range) THEN RDiv(RSub(v, mn), range) ELSE RZero

Norm(v, mn, mx) ==
    LET range == RSub(mx, mn)
    IN  IF GtEps(range) THEN RDiv(RSub(v, mn), range) ELSE <<1, 2>>

\* Variant: the weights left out.
ContribUnweighted(c, mins, maxs, i) ==
    Norm(c.factors[i], mins[i], maxs[i])

Contrib(c, mins, maxs, i) == RMul(W[i], Norm(c.factors[i], mins[i], maxs[i]))

\* Variant: `contrib >= topContrib`, which moves topIdx on a tie.
LoopStepTakesLast(prev, contrib, i) ==
    <<RAdd(prev[1], contrib),
      IF RLe(prev[2], contrib) THEN contrib ELSE prev[2],
      IF RLe(prev[2], contrib) THEN i ELSE prev[3]>>

\* One pass of the loop body of lines 155-159 on <<score, topContrib, topIdx>>
\* (topIdx counted from 1).
LoopStep(prev, contrib, i) ==
    <<RAdd(prev[1], contrib),
      IF RLt(prev[2], contrib) THEN contrib ELSE prev[2],
      IF RLt(prev[2], contrib) THEN i ELSE prev[3]>>

\* The loop of lines 154-160: <<score, topContrib, topIdx>> after factor i.
RECURSIVE ScoreLoop(_, _)
ScoreLoop(contribs, i) ==
    IF i = 0 THEN <<RZero, RZero, 1>>
    ELSE LoopStep(ScoreLoop(contribs, i - 1), contribs[i], i)

\* Variant: a percent scale without the clamp.
Score100Unclamped(score) == RMul(score, <<100, 1>>)

Score10(score) == RMin(RTen, RMax(RZero, RMul(score, RTen)))

Ranked(c, mins, maxs) ==
    LET loop == ScoreLoop(Arr([f \in 1..nFactors |->
                                  Contrib(c, mins, maxs, f)]), nFactors)
    IN  [legs |-> c.legs, score |-> Score10(loop[1]), ev |-> c.ev,
         evAnnual |-> c.evAnnual, volEdge |-> c.volEdge,
         thetaEff |-> c.thetaEff, riskReturn |-> c.riskReturn,
         kelly |-> c.kelly, diversification |-> c.diversification,
         probAllOTM |-> c.probAllOTM, totalPrem |-> c.totalPrem,
         avgApy |-> c.avgApy, factors |-> c.factors,
         topFactor |-> factorNames[loop[3]]]

\* Variants of the sort: ascending comparator; ties taken in reverse order.
SortByScoreAsc(s) ==
    SortDesc(s, [i \in 1..Len(s) |-> <<-s[i].score[1], s[i].score[2]>>])

SortByScoreTiesReversed(s) ==
    LET n == Len(s)
        rev == Arr([i \in 1..n |-> s[n + 1 - i]])
        sorted == SortDesc(rev, [i \in 1..n |-> rev[i].score])
    IN  sorted

SortByScore(s) == SortDesc(s, [i \in 1..Len(s) |-> s[i].score])

rankLadders(candidates) ==
    IF Len(candidates) = 0 THEN <<>>
    ELSE LET mins == Mins(candidates)
             maxs == Maxs(candidates)
         IN  SortByScore(Arr([c \in 1..Len(candidates) |->
                                Ranked(candidates[c], mins, maxs)]))

(***************************************************************************)
(* buildOptimalLadder (lines 191-238)                                      *)
(***************************************************************************)
\* `${t.strike}-${t.expiry}`: one string per (strike, expiry) pair.
LegKey(t) == <<t.strike, t.expiry>>

\* combo.map(x => `${x.strike}-${x.expiry}`).join('|')
ComboKey(combo) == Arr([i \in 1..Len(combo) |-> LegKey(combo[i])])

\* Lines 197-201: a Map keeps the first value set under a key and iterates
\* in insertion order.
RECURSIVE UniqueFrom(_, _)
UniqueFrom(done, todo) ==
    IF todo = <<>> THEN done
    ELSE IF \E i \in 1..Len(done) : LegKey(done[i]) = LegKey(Head(todo))
         THEN UniqueFrom(done, Tail(todo))
         ELSE UniqueFrom(Append(done, Head(todo)), Tail(todo))

\* Variant: no deduplication.
UniqueKeepAll(ofType) == ofType

\* Variant: unique.set without the has test: a key keeps its place in the
\* iteration order and takes the last value set under it.
UniqueKeepLast(ofType) ==
    LET first == UniqueFrom(<<>>, ofType)
        LastAt(key) ==
            CHOOSE i \in 1..Len(ofType) :
                /\ LegKey(ofType[i]) = key
                /\ \A j \in (i + 1)..Len(ofType) : LegKey(ofType[j]) # key
    IN  Arr([i \in 1..Len(first) |-> ofType[LastAt(LegKey(first[i]))]])

Unique(ofType) == UniqueFrom(<<>>, ofType)

SortByApy(s) == SortDesc(s, [i \in 1..Len(s) |-> RInt(s[i].apy)])
SortByStrike(s) == SortDesc(s, [i \in 1..Len(s) |-> RInt(s[i].strike)])

\* Lines 208-213: the keys of byExpiry in insertion order, and one bucket.
RECURSIVE ExpiriesFrom(_, _)
ExpiriesFrom(done, todo) ==
    IF todo = <<>> THEN done
    ELSE IF \E i \in 1..Len(done) : done[i] = Head(todo).expiry
         THEN ExpiriesFrom(done, Tail(todo))
         ELSE ExpiriesFrom(Append(done, Head(todo).expiry), Tail(todo))

Bucket(all, e) == SelectSeq(all, LAMBDA t : t.expiry = e)

PerExpiryCap(n, rep) ==
    IF rep THEN (IF 5 < n + 2 THEN 5 ELSE n + 2)
    ELSE (IF 8 > n + 5 THEN 8 ELSE n + 5)

TopCap(rep) == IF rep THEN 8 ELSE 15

\* Variant: the repetition flag ignored.
CombosAlwaysRep(pool, n, rep) == combinationsWithRep(pool, n)

Combos(pool, n, rep) ==
    IF rep THEN combinationsWithRep(pool, n) ELSE combinations(pool, n)

\* Lines 215-220 for one bucket: the groups pushed for that expiry.
SameExpiryGroups(expTrades, n, rep) ==
    LET expOpts == Slice(SortByStrike(expTrades), PerExpiryCap(n, rep))
    IN  IF ~rep /\ Len(expOpts) < n THEN <<>>
        ELSE IF rep /\ Len(expOpts) = 0 THEN <<>>
        ELSE Combos(expOpts, n, rep)

RECURSIVE SameExpiryAll(_, _, _, _)
SameExpiryAll(all, exps, n, rep) ==
    IF exps = <<>> THEN <<>>
    ELSE SameExpiryGroups(Bucket(all, Head(exps)), n, rep)
            \o SameExpiryAll(all, Tail(exps), n, rep)

\* Lines 227-232: a combo is pushed unless an earlier combo had its key.
Unseen(combos) ==
    LET keys == Arr([i \in 1..Len(combos) |-> ComboKey(combos[i])])
        kept == SelectSeq([i \in 1..Len(combos) |-> i],
                          LAMBDA i : \A j \in 1..(i - 1) : keys[j] # keys[i])
    IN  Arr([p \in 1..Len(kept) |-> combos[kept[p]]])

\* Variant: the pool must be strictly larger than the leg count.
CrossExpiryGroupsStrict(all, n, rep) ==
    LET top == Slice(all, TopCap(rep))
    IN  IF (rep /\ Len(top) > 0) \/ (~rep /\ Len(top) > n)
        THEN Unseen(Combos(top, n, rep))
        ELSE <<>>

CrossExpiryGroups(all, n, rep) ==
    LET top == Slice(all, TopCap(rep))
    IN  IF (rep /\ Len(top) > 0) \/ (~rep /\ Len(top) >= n)
        THEN Unseen(Combos(top, n, rep))
        ELSE <<>>

\* The groups scored by one call, in the order they are pushed.
AllGroups(ofType, n, rep) ==
    LET all == SortByApy(Unique(ofType))
    IN  SameExpiryAll(all, ExpiriesFrom(<<>>, all), n, rep)
            \o CrossExpiryGroups(all, n, rep)

\* The caller's array as the call leaves it: filter, Array.from and slice
\* return new arrays, and the in-place sorts of lines 202 and 215 act on
\* those, so no statement writes through `trades`.
\* Variant: the sort of line 202 applied to the caller's array itself.
TradesAfterSortedInPlace(tr) == SortByApy(tr)

TradesAfter(tr) == tr

\* ranked[0] || null, the result held as a sequence: <<>> for null, <<l>>
\* for the ladder l.
FirstOrNull(rs) == IF Len(rs) = 0 THEN <<>> ELSE <<rs[1]>>

Outcome(kind, value, cs, rs, tr) ==
    [kind |-> kind, value |-> value, candidates |-> cs, ranked |-> rs,
     trades |-> tr]

\* Lines 235-237: the batch is ranked and ranked[0] || null returned.
RankedOutcome(allCandidates, after) ==
    LET rs == rankLadders(allCandidates)
        top == FirstOrNull(rs)
    IN  Outcome(IF top = <<>> THEN "null" ELSE "ladder",
                top, allCandidates, rs, after)

\* Variant: no early return and no `|| null`: ranked[0] of an empty ranking
\* is undefined.
buildOptimalLadderUnguarded(tr, dvol, n, rep) ==
    LET ofType == SelectSeq(tr, LAMBDA t : t.type = "HedgedCSP")
        gs == AllGroups(ofType, n, rep)
        after == TradesAfter(tr)
    IN  IF \E i \in 1..Len(gs) : ScoreThrows(gs[i])
        THEN Outcome("throw", <<>>, <<>>, <<>>, after)
        ELSE LET allCandidates ==
                     Arr([i \in 1..Len(gs) |-> scoreLadder(gs[i], dvol)])
                 rs == rankLadders(allCandidates)
             IN  Outcome(IF Len(rs) = 0 THEN "undefined" ELSE "ladder",
                         FirstOrNull(rs), allCandidates, rs, after)

buildOptimalLadder(tr, dvol, n, rep) ==
    LET ofType == SelectSeq(tr, LAMBDA t : t.type = "HedgedCSP")
    IN  IF ~rep /\ Len(ofType) < n THEN Outcome("null", <<>>, <<>>, <<>>, tr)
        ELSE IF rep /\ Len(ofType) = 0
             THEN Outcome("null", <<>>, <<>>, <<>>, tr)
        ELSE
        LET gs == AllGroups(ofType, n, rep)
            after == TradesAfter(tr)
        IN  IF \E i \in 1..Len(gs) : ScoreThrows(gs[i])
            THEN Outcome("throw", <<>>, <<>>, <<>>, after)
            ELSE IF Len(gs) = 0
                 THEN Outcome("null", <<>>, <<>>, <<>>, after)
            ELSE RankedOutcome(
                     Arr([i \in 1..Len(gs) |-> scoreLadder(gs[i], dvol)]),
                     after)

(***************************************************************************)
(* Inputs.  A leg is a SuggestedTrade (line 3) together with bsNd2 and     *)
(* bsTail.  Strikes and prices are in hundreds of USD.  The figures are    *)
(* chosen on coarse grids so that every score of a batch is a rational     *)
(* with numerator and denominator inside TLC's integers.                   *)
(***************************************************************************)
Leg(inst, strike, expiry, dte, apy, iv, pex, tail) ==
    [instrument |-> inst, type |-> "HedgedCSP", strike |-> strike,
     expiry |-> expiry, dte |-> dte, apy |-> apy, markIv |-> iv,
     futuresPrice |-> 600, probExercise |-> pex, premiumUsd |-> 60,
     moneyness |-> Rat((600 - strike) * 100, strike),
     bsNd2 |-> pex, bsTail |-> tail]

LA54 == Leg("BTC-A-54000-P", 540, "A", 30, 135, 55, <<1, 5>>, <<30, 1>>)
LA52 == Leg("BTC-A-52000-P", 520, "A", 30, 140, 60, <<1, 10>>, <<60, 1>>)
LA56 == Leg("BTC-A-56000-P", 560, "A", 30, 130, 50, <<3, 10>>, <<20, 1>>)
LA58 == Leg("BTC-A-58000-P", 580, "A", 30, 126, 45, <<2, 5>>, <<15, 1>>)
LB54 == Leg("BTC-B-54000-P", 540, "B", 60, 68, 55, <<3, 10>>, <<20, 1>>)
LB50 == Leg("BTC-B-50000-P", 500, "B", 60, 68, 65, <<1, 10>>, <<60, 1>>)
LB52 == Leg("BTC-B-52000-P", 520, "B", 60, 70, 50, <<1, 10>>, <<60, 1>>)
\* A second quote of the (540, "A") contract with other figures.
LA54b == Leg("BTC-A-54000-P#2", 540, "A", 30, 135, 70, <<1, 10>>, <<60, 1>>)

LegPool == {LA54, LA52, LB54, LA54b}

SeqsUpTo(S, n) == UNION {[1..m -> S] : m \in 0..n}

\* Longer lists: five distinct contracts over two expiries, one of them
\* quoted twice; three contracts none of which is best on every factor.
FixedLists ==
    { <<LA54b, LA56, LA54, LB54, LA52, LB50>>, <<LB52, LA58, LB54>> }

TradeLists == SeqsUpTo(LegPool, MaxTrades) \cup FixedLists

DvolVals == { <<>>, <<50>> }
NumLegsVals == 0..5

NoOutcome == Outcome("none", <<>>, <<>>, <<>>, <<>>)

(***************************************************************************)
(* Spec: a caller holding a leg list calls buildOptimalLadder, then calls  *)
(* it again with the same arguments.                                       *)
(***************************************************************************)
NoRank == cands = <<>> /\ ranked = <<>>
NoComb == arr = <<>> /\ kk = 0 /\ groups = <<>>
NoPrice ==
    /\ priceCall = <<>> /\ priceOut = <<>> /\ sweep = <<>>
    /\ stack = <<>> /\ pending = <<>>
\* useState([]) and useState(40) of the component; no request under way.
NoFeed ==
    /\ opts = <<>> /\ maxPexCap = 40
    /\ closure = [maxPexCap |-> 40, numLegs |-> 0]
NoFetch == response = <<>> /\ data = <<>> /\ settled = <<>>
NoLadder ==
    /\ trades = <<>> /\ trades0 = <<>> /\ dvolVal = <<>> /\ numLegs = 0
    /\ allowRep = FALSE /\ ret = NoOutcome /\ ret2 = NoOutcome

Init ==
    /\ NoFeed
    /\ NoFetch
    /\ pc = "start"
    /\ trades \in TradeLists
    /\ trades0 = trades
    /\ dvolVal \in DvolVals
    /\ numLegs \in NumLegsVals
    /\ allowRep \in BOOLEAN
    /\ ret = NoOutcome
    /\ ret2 = NoOutcome
    /\ NoRank
    /\ NoComb
    /\ NoPrice

Call ==
    /\ pc = "start"
    /\ ret' = buildOptimalLadder(trades, dvolVal, numLegs, allowRep)
    /\ trades' = ret'.trades
    /\ pc' = IF ret'.kind = "throw" THEN "threw" ELSE "called"
    /\ UNCHANGED <<dvolVal, numLegs, allowRep, ret2, trades0, cands, ranked,
                   arr, kk, groups, priceCall,
                   priceOut, sweep,
                   stack, pending,
                   feedVars, fetchVars>>

CallAgain ==
    /\ pc = "called"
    /\ ret2' = buildOptimalLadder(trades, dvolVal, numLegs, allowRep)
    /\ trades' = ret2'.trades
    /\ pc' = IF ret2'.kind = "throw" THEN "threw" ELSE "again"
    /\ UNCHANGED <<dvolVal, numLegs, allowRep, ret, trades0, cands, ranked,
                   arr, kk, groups, priceCall,
                   priceOut, sweep,
                   stack, pending,
                   feedVars, fetchVars>>

Next == Call \/ CallAgain

Spec == Init /\ [][Next]_vars

(***************************************************************************)
(* SpecRank: rankLadders applied to a batch of scored candidates.          *)
(***************************************************************************)
\* A scoreLadder result with the given factor vector; volEdge may be
\* negative where its factor is clamped to 0.
Cand(legs, f, volEdge) ==
    [legs |-> legs, score |-> RZero, ev |-> f[1], evAnnual |-> f[1],
     volEdge |-> volEdge, thetaEff |-> f[4], riskReturn |-> f[3],
     kelly |-> f[5], diversification |-> f[6], probAllOTM |-> <<1, 2>>,
     totalPrem |-> <<60, 1>>, avgApy |-> <<100, 1>>, factors |-> f]

FV(a, b, c, d, e, g) ==
    <<RInt(a), RInt(b), RInt(c), RInt(d), RInt(e), RInt(g)>>

CandPool ==
    { Cand(<<LA54>>, FV(4, 1, 2, 2, 0, 0), <<1, 1>>),
      Cand(<<LA52>>, FV(4, 1, 2, 2, 0, 0), <<1, 1>>),
      Cand(<<LA56>>, FV(-2, 0, -1, 3, 0, 1), <<-1, 2>>),
      Cand(<<LB54>>, FV(6, 2, 3, 3, 1, 1), <<2, 1>>),
      Cand(<<LB50>>, FV(0, 0, 0, 0, 0, 0), <<0, 1>>),
      Cand(<<LB52>>, FV(0, 2, 3, 0, 0, 0), <<2, 1>>) }

InitRank ==
    /\ NoFeed
    /\ NoFetch
    /\ pc = "start"
    /\ cands \in SeqsUpTo(CandPool, MaxBatch)
    /\ ranked = <<>>
    /\ NoLadder
    /\ NoComb
    /\ NoPrice

Rank ==
    /\ pc = "start"
    /\ ranked' = rankLadders(cands)
    /\ pc' = "ranked"
    /\ UNCHANGED <<trades, dvolVal, numLegs, allowRep, ret, ret2, trades0,
                   cands, arr, kk, groups, priceCall,
                   priceOut, sweep,
                   stack, pending,
                   feedVars, fetchVars>>

NextRank == Rank

SpecRank == InitRank /\ [][NextRank]_vars

(***************************************************************************)
(* SpecComb: combinations or combinationsWithRep applied to a list and a    *)
(* size.                                                                   *)
(***************************************************************************)
Elems == {"a", "b", "c"}

InitComb ==
    /\ NoFeed
    /\ NoFetch
    /\ pc = "start"
    /\ arr \in SeqsUpTo(Elems, MaxArr)
    /\ kk \in 0..MaxK
    /\ groups = <<>>
    /\ NoLadder
    /\ NoRank
    /\ NoPrice

Combine ==
    /\ pc = "start"
    /\ groups' = combinations(arr, kk)
    /\ pc' = "combined"
    /\ UNCHANGED <<trades, dvolVal, numLegs, allowRep, ret, ret2, trades0,
                   cands, ranked, arr, kk, priceCall,
                   priceOut, sweep,
                   stack, pending,
                   feedVars, fetchVars>>

CombineRep ==
    /\ pc = "start"
    /\ groups' = combinationsWithRep(arr, kk)
    /\ pc' = "combinedRep"
    /\ UNCHANGED <<trades, dvolVal, numLegs, allowRep, ret, ret2, trades0,
                   cands, ranked, arr, kk, priceCall,
                   priceOut, sweep,
                   stack, pending,
                   feedVars, fetchVars>>

NextComb == Combine \/ CombineRep

SpecComb == InitComb /\ [][NextComb]_vars

(***************************************************************************)
(* SpecPrice: one call of a pricing function on arguments of a grid that   *)
(* holds zero and negative values for every argument.                      *)
(***************************************************************************)
PriceS == {RZero, <<600, 1>>}
PriceK == {<<-540, 1>>, RZero, <<600, 1>>}
PriceT == {<<-1, 4>>, RZero, <<1, 4>>, ROne}
PriceSigma == {<<-1, 2>>, RZero, <<1, 2>>}
PriceTypes == {"C", "P"}
PriceX == {<<-2, 1>>, <<-1, 1>>, <<-1, 2>>, RZero, <<1, 2>>, ROne, <<2, 1>>}

PriceCalls ==
    [fn : {"pEx", "bsGreeks"}, S : PriceS, K : PriceK, T : PriceT,
     sigma : PriceSigma, type : PriceTypes]
    \cup [fn : {"conditionalTailLoss"}, T : PriceT, sigma : PriceSigma,
          Nd2 : {RZero, <<1, 5>>}, tail : {<<-5, 1>>, <<30, 1>>}]
    \cup [fn : {"putApyHedged"}, mp : {RZero, <<1, 100>>},
          fp : {RZero, <<600, 1>>}, k : PriceK,
          d : {RInt(-1), RZero, RInt(30)}]
    \cup [fn : {"normCdf"}, x : PriceX]

InitPrice ==
    /\ NoFeed
    /\ NoFetch
    /\ pc = "start"
    /\ priceCall \in PriceCalls
    /\ priceOut = <<>>
    /\ sweep = <<>> /\ stack = <<>> /\ pending = <<>>
    /\ NoLadder
    /\ NoRank
    /\ NoComb

Price ==
    /\ pc = "start"
    /\ priceOut' =
          LET c == priceCall
          IN  CASE c.fn = "pEx" -> pEx(c.S, c.K, c.T, c.sigma, c.type)
                [] c.fn = "bsGreeks" ->
                      bsGreeks(c.S, c.K, c.T, c.sigma, c.type)
                [] c.fn = "conditionalTailLoss" ->
                      <<conditionalTailLoss(c.T, c.sigma, c.Nd2, c.tail)>>
                [] c.fn = "putApyHedged" ->
                      putApyHedged(c.mp, c.fp, c.k, c.d)
                [] c.fn = "normCdf" -> normCdf(c.x)
    /\ pc' = "priced"
    /\ UNCHANGED <<trades, dvolVal, numLegs, allowRep, ret, ret2, trades0,
                   cands, ranked, arr, kk, groups, priceCall, sweep,
                   stack, pending,
                   feedVars, fetchVars>>

NextPrice == Price

SpecPrice == InitPrice /\ [][NextPrice]_vars

(***************************************************************************)
(* SpecScore: the loop of lines 219-220 scores each group of a batch, and  *)
(* rankLadders ranks the scored batch.  The legs satisfy the input         *)
(* contract (dte > 0, futuresPrice > 0, probExercise in [0, 1]) and reach  *)
(* its corners: no exercise, sure exercise, no premium, no tail loss.      *)
(***************************************************************************)
LegX(inst, strike, expiry, dte, iv, fp, prem, pex, tail) ==
    [instrument |-> inst, type |-> "HedgedCSP", strike |-> strike,
     expiry |-> expiry, dte |-> dte, apy |-> 100, markIv |-> iv,
     futuresPrice |-> fp, probExercise |-> pex, premiumUsd |-> prem,
     moneyness |-> Rat((fp - strike) * 100, strike),
     bsNd2 |-> pex, bsTail |-> tail]

SZeroPex == LegX("BTC-A-50000-P", 500, "A", 30, 55, 600, 60, <<0, 1>>, <<30, 1>>)
SSurePex == LegX("BTC-A-60000-P", 600, "A", 30, 55, 600, 60, <<1, 1>>, <<30, 1>>)
SNoPrem == LegX("BTC-A-54000-P", 540, "A", 30, 55, 600, 0, <<1, 5>>, <<30, 1>>)
SNegTail == LegX("BTC-A-52000-P", 520, "A", 30, 60, 600, 60, <<1, 5>>, <<-5, 1>>)
SOther == LegX("BTC-B-50000-P", 500, "B", 60, 65, 500, 30, <<1, 10>>, <<60, 1>>)

ScorePool == {LA54, SZeroPex, SSurePex, SNoPrem, SNegTail, SOther}
ScoreGroups == SeqsUpTo(ScorePool, MaxLegs) \ {<<>>}
ScoreBatches ==
    {<<g>> : g \in ScoreGroups}
        \cup {<<g, <<l>>>> : g \in ScoreGroups, l \in ScorePool}
ScoreDvols == {<<>>, <<0>>, <<-5>>, <<1>>, <<50>>}

InitScore ==
    /\ NoFeed
    /\ NoFetch
    /\ pc = "start"
    /\ groups \in ScoreBatches
    /\ dvolVal \in ScoreDvols
    /\ arr = <<>> /\ kk = 0
    /\ trades = <<>> /\ trades0 = <<>> /\ numLegs = 0 /\ allowRep = FALSE
    /\ ret = NoOutcome /\ ret2 = NoOutcome
    /\ NoRank
    /\ NoPrice

ScoreAll ==
    /\ pc = "start"
    /\ cands' = Arr([i \in 1..Len(groups) |-> scoreLadder(groups[i], dvolVal)])
    /\ pc' = "scored"
    /\ UNCHANGED <<trades, dvolVal, numLegs, allowRep, ret, ret2, trades0,
                   ranked, arr, kk, groups, priceCall, priceOut, sweep,
                   stack, pending,
                   feedVars, fetchVars>>

RankScored ==
    /\ pc = "scored"
    /\ ranked' = rankLadders(cands)
    /\ pc' = "scoredRanked"
    /\ UNCHANGED <<trades, dvolVal, numLegs, allowRep, ret, ret2, trades0,
                   cands, arr, kk, groups, priceCall, priceOut, sweep,
                   stack, pending,
                   feedVars, fetchVars>>

NextScore == ScoreAll \/ RankScored

SpecScore == InitScore /\ [][NextScore]_vars

(***************************************************************************)
(* SpecAuto: computedHedged of the component (lines 96-107), which sweeps  *)
(* the leg counts 1..5 when numLegs is 0.                                  *)
(***************************************************************************)
\* dvol?.v || null
DvolArg(d) == IF d = <<>> \/ d[1] = 0 THEN <<>> ELSE d

\* Variant: a later result of equal score replaces the one kept.
AutoStepGe(top, l) ==
    IF l # <<>> /\ (top = <<>> \/ RLe(top[1].score, l[1].score))
    THEN l ELSE top

\* Line 102: if (l && (!top || l.score > top.score)) top = l
AutoStep(top, l) ==
    IF l # <<>> /\ (top = <<>> \/ RLt(top[1].score, l[1].score))
    THEN l ELSE top

\* top after the calls for n = 1..i.
RECURSIVE AutoTop(_, _)
AutoTop(results, i) ==
    IF i = 0 THEN <<>> ELSE AutoStep(AutoTop(results, i - 1), results[i])

\* The results of the calls of line 101, in the order of the loop.
AutoSweep(tr, dvol, rep) ==
    Arr([n \in 1..5 |-> buildOptimalLadder(tr, DvolArg(dvol), n, rep).value])

InitAuto ==
    /\ NoFeed
    /\ NoFetch
    /\ pc = "start"
    /\ trades \in TradeLists
    /\ trades0 = trades
    /\ dvolVal \in DvolVals \cup {<<0>>}
    /\ numLegs \in NumLegsVals
    /\ allowRep \in BOOLEAN
    /\ ret = NoOutcome
    /\ ret2 = NoOutcome
    /\ NoRank
    /\ NoComb
    /\ NoPrice

computedHedged ==
    /\ pc = "start"
    /\ IF Len(trades) = 0
       THEN /\ sweep' = <<>>
            /\ ret' = Outcome("null", <<>>, <<>>, <<>>, trades)
       ELSE IF numLegs = 0
       THEN /\ sweep' = AutoSweep(trades, dvolVal, allowRep)
            /\ LET top == AutoTop(sweep', 5)
               IN  ret' = Outcome(IF top = <<>> THEN "null" ELSE "ladder",
                                  top, <<>>, <<>>, trades)
       ELSE /\ sweep' = <<>>
            /\ ret' = buildOptimalLadder(trades, DvolArg(dvolVal), numLegs,
                                         allowRep)
    /\ pc' = "computed"
    /\ UNCHANGED <<trades, dvolVal, numLegs, allowRep, ret2, trades0, cands,
                   ranked, arr, kk, groups, priceCall, priceOut,
                   stack, pending,
                   feedVars, fetchVars>>

NextAuto == computedHedged

SpecAuto == InitAuto /\ [][NextAuto]_vars

\* The memos and the render read computedHedged, the value the action
\* above leaves in ret: they are functions of it, recomputed with it.
\* `HP-${leg.strike}-${leg.expiry}` (line 114): the decimal form of a
\* positive whole strike holds no "-", so the key names the pair.
CellKey(leg) == <<"HP", leg.strike, leg.expiry>>

\* Variant: every computed ladder is highlighted, whatever its score.
recommendedKeysAnyScore ==
    IF ret.value # <<>>
    THEN {CellKey(ret.value[1].legs[i]) : i \in 1..Len(ret.value[1].legs)}
    ELSE {}

\* Lines 110-119: addL(computedHedged) on an empty set.
recommendedKeys ==
    IF ret.value # <<>> /\ RLe(<<5, 1>>, ret.value[1].score)
    THEN {CellKey(ret.value[1].legs[i]) : i \in 1..Len(ret.value[1].legs)}
    ELSE {}

\* Lines 404-405: the ladder handed to LadderCard, <<>> for null.
filteredHedged ==
    IF ret.value # <<>> /\ RLe(<<5, 1>>, ret.value[1].score)
    THEN ret.value ELSE <<>>

\* Lines 403 and 456: the card is rendered when trades is not empty, and
\* shows a ladder when the ladder it is given is not null.
CardShowsLadder == Len(trades) # 0 /\ filteredHedged # <<>>

(***************************************************************************)
(* SpecTerm: the recursions of combinations and combinationsWithRep run    *)
(* call by call.  A frame is one call: the list and size it was given and  *)
(* the elements the enclosing calls put in front of its groups (the        *)
(* .map(c => [first, ...c]) of lines 174 and 185).  The stack holds the    *)
(* calls not yet made.  A run is either one recursion on its own or one    *)
(* call of buildOptimalLadder, which runs a recursion per pool: the        *)
(* options of each expiry (line 218), then the cross-expiry top (line 228).*)
(***************************************************************************)
Frame(prefix, a, k) == [prefix |-> prefix, a |-> a, k |-> k]

\* Lines 170-171 and 181-182: the call returns without a further call.
AtBase(f, rep) ==
    f.k = 0 \/ (IF rep THEN Len(f.a) = 0 ELSE Len(f.a) < f.k)

\* Variant: the call that skips the first element is given the whole list.
RecursiveCallsWhole(f, rep) ==
    <<Frame(Append(f.prefix, Head(f.a)), IF rep THEN f.a ELSE Tail(f.a),
            f.k - 1),
      Frame(f.prefix, f.a, f.k)>>

\* Lines 172-176 and 183-187: the two recursive calls, in order.
RecursiveCalls(f, rep) ==
    <<Frame(Append(f.prefix, Head(f.a)), IF rep THEN f.a ELSE Tail(f.a),
            f.k - 1),
      Frame(f.prefix, Tail(f.a), f.k)>>

\* The pools buildOptimalLadder hands to a recursion, in order.
RECURSIVE SameExpiryPools(_, _, _, _)
SameExpiryPools(all, exps, n, rep) ==
    IF exps = <<>> THEN <<>>
    ELSE LET expOpts == Slice(SortByStrike(Bucket(all, Head(exps))),
                           PerExpiryCap(n, rep))
         IN  (IF (~rep /\ Len(expOpts) < n) \/ (rep /\ Len(expOpts) = 0)
              THEN <<>> ELSE <<expOpts>>)
                 \o SameExpiryPools(all, Tail(exps), n, rep)

Pools(ofType, n, rep) ==
    LET all == SortByApy(Unique(ofType))
        top == Slice(all, TopCap(rep))
    IN  SameExpiryPools(all, ExpiriesFrom(<<>>, all), n, rep)
            \o (IF (rep /\ Len(top) > 0) \/ (~rep /\ Len(top) >= n)
                THEN <<top>> ELSE <<>>)

InitTerm ==
    /\ NoFeed
    /\ NoFetch
    /\ \/ /\ pc = "start"
          /\ trades \in TradeLists
          /\ numLegs \in 1..5
          /\ arr = <<>> /\ kk = 0
          /\ pending = <<>>
       \/ /\ pc = "recurse"
          /\ trades = <<>>
          /\ numLegs = 0
          /\ arr \in SeqsUpTo(Elems, MaxArr)
          /\ kk \in 0..MaxK
          /\ pending = <<arr>>
    /\ trades0 = trades
    /\ dvolVal = <<>>
    /\ allowRep \in BOOLEAN
    /\ ret = NoOutcome /\ ret2 = NoOutcome
    /\ groups = <<>>
    /\ stack = <<>>
    /\ NoRank
    /\ priceCall = <<>> /\ priceOut = <<>> /\ sweep = <<>>

\* Lines 192-194 and the loops that build the pools.
Begin ==
    /\ pc = "start"
    /\ LET ofType == SelectSeq(trades, LAMBDA t : t.type = "HedgedCSP")
       IN  IF (~allowRep /\ Len(ofType) < numLegs)
              \/ (allowRep /\ Len(ofType) = 0)
           THEN /\ pc' = "done"
                /\ ret' = Outcome("null", <<>>, <<>>, <<>>, trades)
                /\ UNCHANGED <<pending, kk,
                   feedVars, fetchVars>>
           ELSE /\ pc' = "loop"
                /\ pending' = Pools(ofType, numLegs, allowRep)
                /\ kk' = numLegs
                /\ UNCHANGED ret
    /\ UNCHANGED <<trades, dvolVal, numLegs, allowRep, ret2, trades0, cands,
                   ranked, arr, groups, priceCall, priceOut, sweep, stack,
                   feedVars, fetchVars>>

\* The outermost call on the next pool.
NextPool ==
    /\ pc \in {"loop", "recurse"}
    /\ stack = <<>>
    /\ pending # <<>>
    /\ stack' = <<Frame(<<>>, Head(pending), kk)>>
    /\ pending' = Tail(pending)
    /\ UNCHANGED <<pc, trades, dvolVal, numLegs, allowRep, ret, ret2, trades0,
                   cands, ranked, arr, kk, groups, priceCall, priceOut, sweep,
                   feedVars, fetchVars>>

\* One call: at k = 0 it returns [[]], which reaches the caller as the
\* prefix; at the other base case it returns []; otherwise it makes its
\* two calls.
Step ==
    /\ pc \in {"loop", "recurse"}
    /\ stack # <<>>
    /\ LET f == Head(stack)
       IN  IF f.k = 0
           THEN /\ groups' = Append(groups, f.prefix)
                /\ stack' = Tail(stack)
           ELSE IF AtBase(f, allowRep)
           THEN /\ stack' = Tail(stack)
                /\ UNCHANGED groups
           ELSE /\ stack' = RecursiveCalls(f, allowRep) \o Tail(stack)
                /\ UNCHANGED groups
    /\ UNCHANGED <<pc, trades, dvolVal, numLegs, allowRep, ret, ret2, trades0,
                   cands, ranked, arr, kk, priceCall, priceOut, sweep,
                   pending,
                   feedVars, fetchVars>>

\* Lines 235-237 once every pool is done; the recursion on its own returns.
Finish ==
    /\ pc \in {"loop", "recurse"}
    /\ stack = <<>>
    /\ pending = <<>>
    /\ IF pc = "loop"
       THEN /\ ret' = buildOptimalLadder(trades, dvolVal, numLegs, allowRep)
            /\ pc' = "done"
       ELSE /\ pc' = "returned"
            /\ UNCHANGED ret
    /\ UNCHANGED <<trades, dvolVal, numLegs, allowRep, ret2, trades0, cands,
                   ranked, arr, kk, groups, priceCall, priceOut, sweep, stack,
                   pending,
                   feedVars, fetchVars>>

NextTerm == Begin \/ NextPool \/ Step \/ Finish

SpecTerm == InitTerm /\ [][NextTerm]_vars

(***************************************************************************)
(* SpecGroups: the two pool-building steps of buildOptimalLadder (lines    *)
(* 192-233) on lists long enough for the caps of lines 205 and 224 to cut, *)
(* without the scoring.  After each step `groups` holds the groups that    *)
(* step hands to scoreLadder.                                              *)
(***************************************************************************)
\* Leg i of a chain of quotes: distinct strikes within an expiry, distinct
\* yields, nine legs of expiry "A" and the rest of expiry "B"; the yield
\* order, the strike order and the list order all differ.
ChainLeg(i) ==
    Leg(ToString(i), 400 + 10 * ((i * 5) % 19),
        IF i <= 9 THEN "A" ELSE "B", IF i <= 9 THEN 30 ELSE 60,
        50 + ((i * 7) % 23), 55, <<1, 10>>, <<60, 1>>)

\* The chain, followed by a second quote of the contract of leg 3 that
\* carries the highest yield of all.
ChainRequote ==
    [ChainLeg(3) EXCEPT !.instrument = "requote", !.apy = 99]

Chain(m) == Arr([i \in 1..m |-> ChainLeg(i)])
Reversed(s) == Arr([i \in 1..Len(s) |-> s[Len(s) + 1 - i]])

GroupLists ==
    LET prefixes == {Chain(m) : m \in 0..(MaxPool - 1)}
        full == {Append(Chain(MaxPool - 1), ChainRequote)}
    IN  prefixes \cup full \cup {Reversed(l) : l \in prefixes}

InitGroups ==
    /\ NoFeed
    /\ NoFetch
    /\ pc = "start"
    /\ trades \in GroupLists
    /\ trades0 = trades
    /\ numLegs \in 1..5
    /\ allowRep \in BOOLEAN
    /\ dvolVal = <<>>
    /\ ret = NoOutcome /\ ret2 = NoOutcome
    /\ NoRank
    /\ NoComb
    /\ NoPrice

\* Lines 192-221: the early returns, the deduplication and the same-expiry
\* loop.
SameExpiryStep ==
    /\ pc = "start"
    /\ LET ofType == SelectSeq(trades, LAMBDA t : t.type = "HedgedCSP")
       IN  IF (~allowRep /\ Len(ofType) < numLegs)
                \/ (allowRep /\ Len(ofType) = 0)
           THEN groups' = <<>> /\ pc' = "null"
           ELSE /\ groups' =
                       SameExpiryAll(SortByApy(Unique(ofType)),
                                     ExpiriesFrom(<<>>, SortByApy(Unique(ofType))),
                                     numLegs, allowRep)
                /\ pc' = "sameExpiry"
    /\ UNCHANGED <<trades, dvolVal, numLegs, allowRep, ret, ret2, trades0,
                   cands, ranked, arr, kk, priceCall, priceOut, sweep,
                   stack, pending,
                   feedVars, fetchVars>>

\* Lines 224-233: the cross-expiry block.
CrossExpiryStep ==
    /\ pc = "sameExpiry"
    /\ groups' =
           CrossExpiryGroups(
               SortByApy(Unique(SelectSeq(trades,
                                          LAMBDA t : t.type = "HedgedCSP"))),
               numLegs, allowRep)
    /\ pc' = "crossExpiry"
    /\ UNCHANGED <<trades, dvolVal, numLegs, allowRep, ret, ret2, trades0,
                   cands, ranked, arr, kk, priceCall, priceOut, sweep,
                   stack, pending,
                   feedVars, fetchVars>>

NextGroups == SameExpiryStep \/ CrossExpiryStep

SpecGroups == InitGroups /\ [][NextGroups]_vars

(***************************************************************************)
(* SpecMorpho: fetchMorphoRates of src/services/morphoProvider.ts.  A      *)
(* JavaScript value is a pair of its type and its content; a string is the *)
(* sequence of its characters, an object the function from its own keys    *)
(* to their values.  borrow_apy * 100 is exact; its rounding is outside    *)
(* the model.                                                              *)
(***************************************************************************)
Undefined == <<"undefined", 0>>
JNull == <<"null", 0>>
JBool(b) == <<"boolean", b>>
JNum(r) == <<"number", r>>
JStr(cs) == <<"string", cs>>
JArr(xs) == <<"array", xs>>
JObj(f) == <<"object", f>>
NaN == <<0, 0>>

Nullish(v) == v[1] \in {"undefined", "null"}

\* v.key for a v that is neither null nor undefined (reading a property of
\* those throws TypeError); none of the keys read here is a property of a
\* string, an array, a number or a boolean.
Get(v, key) ==
    IF v[1] = "object" /\ key \in DOMAIN v[2] THEN v[2][key] ELSE Undefined

\* v?.key
OptGet(v, key) == IF Nullish(v) THEN Undefined ELSE Get(v, key)

\* v?.[0]
OptFirst(v) ==
    IF Nullish(v) THEN Undefined
    ELSE IF v[1] = "array"
         THEN (IF Len(v[2]) = 0 THEN Undefined ELSE v[2][1])
    ELSE IF v[1] = "string"
         THEN (IF Len(v[2]) = 0 THEN Undefined ELSE JStr(<<v[2][1]>>))
    ELSE Get(v, "0")

\* Variant: every value counts as true.
TruthyAlways(v) == TRUE

\* ToBoolean, the test of `if (latestRow)`.
Truthy(v) ==
    IF Nullish(v) THEN FALSE
    ELSE IF v[1] = "boolean" THEN v[2]
    ELSE IF v[1] = "number" THEN v[2][1] # 0
    ELSE IF v[1] = "string" THEN Len(v[2]) > 0
    ELSE TRUE

\* StringToNumber on a string without white space: an empty string is 0,
\* an optional sign before decimal digits with at most one point is that
\* number, anything else NaN.  The strings of the model hold no exponent,
\* no "Infinity" and no 0x, 0o or 0b prefix.
Digit(c) ==
    CASE c = "0" -> 0 [] c = "1" -> 1 [] c = "2" -> 2 [] c = "3" -> 3
      [] c = "4" -> 4 [] c = "5" -> 5 [] c = "6" -> 6 [] c = "7" -> 7
      [] c = "8" -> 8 [] c = "9" -> 9 [] OTHER -> -1
AllDigits(cs) == \A i \in 1..Len(cs) : Digit(cs[i]) >= 0
RECURSIVE DigitsValue(_)
DigitsValue(cs) ==
    IF cs = <<>> THEN 0
    ELSE DigitsValue(SubSeq(cs, 1, Len(cs) - 1)) * 10 + Digit(cs[Len(cs)])
RECURSIVE Pow10(_)
Pow10(n) == IF n = 0 THEN 1 ELSE 10 * Pow10(n - 1)
PointAt(cs) ==
    IF \E i \in 1..Len(cs) : cs[i] = "."
    THEN CHOOSE i \in 1..Len(cs) :
            cs[i] = "." /\ \A j \in 1..(i - 1) : cs[j] # "."
    ELSE 0
UnsignedToNumber(cs) ==
    LET point == PointAt(cs)
        whole == IF point = 0 THEN cs ELSE SubSeq(cs, 1, point - 1)
        frac == IF point = 0 THEN <<>> ELSE SubSeq(cs, point + 1, Len(cs))
    IN  IF AllDigits(whole) /\ AllDigits(frac) /\ Len(whole) + Len(frac) > 0
        THEN RAdd(RInt(DigitsValue(whole)),
                  Rat(DigitsValue(frac), Pow10(Len(frac))))
        ELSE NaN
StringToNumber(cs) ==
    IF cs = <<>> THEN RZero
    ELSE IF cs[1] = "-" THEN RNeg(UnsignedToNumber(Tail(cs)))
    ELSE IF cs[1] = "+" THEN UnsignedToNumber(Tail(cs))
    ELSE UnsignedToNumber(cs)

\* ToNumber, applied by `*` to its left operand.  An array goes through its
\* join: "" when empty, the text of its element when it has one (null and
\* undefined give "", a number reads back as itself), and a text with a
\* comma, hence NaN, when it has more.  An object gives "[object Object]".
RECURSIVE ToNumber(_)
ToNumber(v) ==
    IF v[1] = "undefined" THEN NaN
    ELSE IF v[1] = "null" THEN RZero
    ELSE IF v[1] = "boolean" THEN (IF v[2] THEN ROne ELSE RZero)
    ELSE IF v[1] = "number" THEN v[2]
    ELSE IF v[1] = "string" THEN StringToNumber(v[2])
    ELSE IF v[1] = "array"
         THEN (IF Len(v[2]) = 0 THEN RZero
               ELSE IF Len(v[2]) > 1 THEN NaN
               ELSE IF Nullish(v[2][1]) THEN RZero
               ELSE IF v[2][1][1] = "boolean" THEN NaN
               ELSE ToNumber(v[2][1]))
    ELSE NaN

\* The resolved value { cbBtcSupply, usdcBorrow } and the settled promise.
Rates(supply, borrow) == [cbBtcSupply |-> supply, usdcBorrow |-> borrow]
Resolved(v) == <<"resolved", v>>
Fallback == Rates(RZero, Rat(35, 10))

\* Line 5.
LatestRow(d) == OptFirst(OptGet(Get(d, "result"), "rows"))

\* Variant: the row is used whatever it is.
RowsStepUnguarded(d) ==
    IF Nullish(d) \/ Nullish(LatestRow(d)) THEN <<"caught", <<>>>>
    ELSE <<"done",
           Resolved(Rates(RZero,
               RMul(ToNumber(Get(LatestRow(d), "borrow_apy")), RInt(100))))>>

\* Lines 5-15 on the parsed data: <<where control goes, the promise>>.
\* data.result on null throws TypeError, a missing row throws the Error of
\* line 15; both are caught at line 16.
RowsStep(d) ==
    IF Nullish(d) THEN <<"caught", <<>>>>
    ELSE IF Truthy(LatestRow(d))
         THEN <<"done",
                Resolved(Rates(RZero,
                    RMul(ToNumber(Get(LatestRow(d), "borrow_apy")),
                         RInt(100))))>>
    ELSE <<"caught", <<>>>>

\* What the network and the Dune endpoint can answer.
ApyVals ==
    { JNum(Rat(32, 1000)), JNum(Rat(5, 100)), JNum(RZero), JNum(Rat(-1, 100)),
      JNum(RInt(2)), JNull, JBool(TRUE),
      JStr(<<"0", ".", "0", "5">>), JStr(<<"-", "1", ".", "5">>),
      JStr(<<"a", "b", "c">>), JStr(<<>>), JStr(<<".">>),
      JArr(<<>>), JArr(<<JNum(Rat(1, 20))>>), JArr(<<JNum(ROne), JNum(ROne)>>),
      JObj([value |-> JNum(ROne)]) }
RowVals ==
    { JNull, JNum(RZero), JStr(<<>>), JBool(FALSE), JBool(TRUE),
      JNum(RInt(7)), JStr(<<"x">>), JArr(<<>>),
      JObj([supply_apy |-> JNum(Rat(1, 100))]) }
        \cup {JObj([borrow_apy |-> a]) : a \in ApyVals}
        \cup {JObj([borrow_apy |-> JNum(Rat(41, 1000)),
                    day |-> JStr(<<"1">>)])}
RowsVals ==
    { JNull, JArr(<<>>), JNum(RInt(3)), JStr(<<"a", "b">>), JStr(<<>>),
      JObj("0" :> JObj([borrow_apy |-> JNum(Rat(3, 100))])),
      JArr(<<JNull, JObj([borrow_apy |-> JNum(Rat(3, 100))])>>),
      JArr(<<JObj([borrow_apy |-> JNum(Rat(3, 100))]),
             JObj([borrow_apy |-> JNum(Rat(9, 100))])>>) }
        \cup {JArr(<<r>>) : r \in RowVals}
ResultVals ==
    { JNull, JNum(ROne), JStr(<<"o", "k">>), JArr(<<>>),
      JObj([metadata |-> JNull]) }
        \cup {JObj([rows |-> w]) : w \in RowsVals}
DataVals ==
    { JNull, JNum(RInt(5)), JStr(<<"n", "o">>), JBool(FALSE), JArr(<<>>),
      JObj([error |-> JStr(<<"k", "e", "y">>)]) }
        \cup {JObj([result |-> r]) : r \in ResultVals}
        \cup {JObj([result |-> JObj([rows |-> JArr(<<JObj([borrow_apy |->
                      JNum(Rat(32, 1000))])>>)]), state |-> JStr(<<"o", "k">>)])}

\* fetch rejects, or resolves to a response whose body is JSON or is not.
FetchOutcomes ==
    { <<"rejected">>, <<"response", <<"text">>>> }
        \cup {<<"response", <<"json", d>>>> : d \in DataVals}

InitMorpho ==
    /\ pc = "start"
    /\ NoFetch
    /\ NoFeed
    /\ NoLadder
    /\ NoRank
    /\ NoComb
    /\ NoPrice

\* Line 3: await fetch(...).
Fetch ==
    /\ pc = "start"
    /\ \E r \in FetchOutcomes :
          /\ response' = r
          /\ pc' = IF r[1] = "rejected" THEN "caught" ELSE "fetched"
    /\ UNCHANGED <<data, settled, trades, dvolVal, numLegs, allowRep, ret,
                   ret2, trades0, cands, ranked, arr, kk, groups, priceCall,
                   priceOut, sweep, stack, pending, feedVars>>

\* Line 4: await response.json().
Json ==
    /\ pc = "fetched"
    /\ IF response[2][1] = "json"
       THEN data' = response[2][2] /\ pc' = "parsed"
       ELSE data' = data /\ pc' = "caught"
    /\ UNCHANGED <<response, settled, trades, dvolVal, numLegs, allowRep,
                   ret, ret2, trades0, cands, ranked, arr, kk, groups,
                   priceCall, priceOut, sweep, stack, pending, feedVars>>

\* Lines 5-15.
Rows ==
    /\ pc = "parsed"
    /\ pc' = RowsStep(data)[1]
    /\ settled' = RowsStep(data)[2]
    /\ UNCHANGED <<response, data, trades, dvolVal, numLegs, allowRep, ret,
                   ret2, trades0, cands, ranked, arr, kk, groups, priceCall,
                   priceOut, sweep, stack, pending, feedVars>>

\* Lines 16-19.
Catch ==
    /\ pc = "caught"
    /\ settled' = Resolved(Fallback)
    /\ pc' = "done"
    /\ UNCHANGED <<response, data, trades, dvolVal, numLegs, allowRep, ret,
                   ret2, trades0, cands, ranked, arr, kk, groups, priceCall,
                   priceOut, sweep, stack, pending, feedVars>>

NextMorpho == Fetch \/ Json \/ Rows \/ Catch

SpecMorpho == InitMorpho /\ [][NextMorpho]_vars

(***************************************************************************)
(* SpecFeed: the suggested-trades effect of the component (lines 148-168)  *)
(* between the option fetch and computedHedged.  A ParsedOption            *)
(* carries, next to its own fields, the values of the real-valued          *)
(* functions of them: pex for pEx(futuresPrice, strike, dte / 365,         *)
(* markIv / 100, type), in [0, 1], and tail for the leg's bsTail.  The     *)
(* quotes are chosen so that premiums and yields are whole numbers, which  *)
(* the legs of the model hold as integers.                                 *)
(***************************************************************************)
MaxFeedLegs == 2

Opt(inst, strike, expiry, dte, type, prem, iv, fp, pex, tail) ==
    [instrument |-> inst, strike |-> strike, expiry |-> expiry, type |-> type,
     markPrice |-> Rat(prem, fp), markIv |-> iv, futuresPrice |-> fp,
     dte |-> dte, pex |-> pex, tail |-> tail]

\* Line 156 on the nullable number putApyHedged returns in the model.
ApyHedged(o) ==
    putApyHedged(o.markPrice, RInt(o.futuresPrice), RInt(o.strike),
                 RInt(o.dte))[1]

\* Variant: no test of the probability of exercise.
AdmitsWithoutCap(o, cap) ==
    /\ ~(o.dte < 15 \/ o.type = "C")
    /\ ~(RLt(Rat(o.futuresPrice, o.strike), ROne)
           \/ RLt(Rat(115, 100), Rat(o.futuresPrice, o.strike)))
    /\ RLt(RInt(5), ApyHedged(o)) /\ RLe(ApyHedged(o), RInt(200))

\* Lines 152-157: the option is pushed.
Admits(o, cap) ==
    /\ ~(o.dte < 15 \/ o.type = "C")
    /\ ~(RLt(Rat(o.futuresPrice, o.strike), ROne)
           \/ RLt(Rat(115, 100), Rat(o.futuresPrice, o.strike)))
    /\ ~RLt(Rat(cap, 100), o.pex)
    /\ RLt(RInt(5), ApyHedged(o)) /\ RLe(ApyHedged(o), RInt(200))

\* Line 158: the trade pushed for an admitted option.
TradeOf(o) ==
    [instrument |-> o.instrument, type |-> "HedgedCSP", strike |-> o.strike,
     expiry |-> o.expiry, dte |-> o.dte, apy |-> ApyHedged(o)[1],
     markIv |-> o.markIv, futuresPrice |-> o.futuresPrice,
     probExercise |-> o.pex,
     premiumUsd |-> RMul(o.markPrice, RInt(o.futuresPrice))[1],
     moneyness |-> RMul(RSub(Rat(o.futuresPrice, o.strike), ROne), RInt(100)),
     bsNd2 |-> o.pex, bsTail |-> o.tail]

\* Lines 150-162: compute() with the opts, maxPexCap and numLegs its
\* closure holds; the list handed to setTrades.
RECURSIVE Pushed(_, _)
Pushed(os, cap) ==
    IF os = <<>> THEN <<>>
    ELSE (IF Admits(Head(os), cap) THEN <<TradeOf(Head(os))>> ELSE <<>>)
             \o Pushed(Tail(os), cap)
compute(os, cap, n) ==
    Slice(SortByApy(Pushed(os, cap)), IF 15 > n * 4 THEN 15 ELSE n * 4)

\* Quotes: futures at 600, expiries 73 and 146 days away and one 14 days
\* and one 25 days away; every admitted put has a premium of 108.
PA54 == Opt("BTC-A-54000-P", 540, "A", 73, "P", 108, 55, 600, <<1, 5>>, <<30, 1>>)
PA60 == Opt("BTC-A-60000-P", 600, "A", 73, "P", 108, 50, 600, <<2, 5>>, <<20, 1>>)
PB54 == Opt("BTC-B-54000-P", 540, "B", 146, "P", 108, 55, 600, <<3, 10>>, <<20, 1>>)
PB60 == Opt("BTC-B-60000-P", 600, "B", 146, "P", 108, 60, 600, <<1, 10>>, <<60, 1>>)
CA54 == Opt("BTC-A-54000-C", 540, "A", 73, "C", 108, 55, 600, <<1, 5>>, <<30, 1>>)
PA50 == Opt("BTC-A-50000-P", 500, "A", 73, "P", 108, 65, 600, <<1, 20>>, <<60, 1>>)
PA62 == Opt("BTC-A-62000-P", 620, "A", 73, "P", 108, 45, 600, <<1, 5>>, <<15, 1>>)
PB58 == Opt("BTC-B-58000-P", 580, "B", 146, "P", 5, 50, 600, <<0, 1>>, <<15, 1>>)
PC54 == Opt("BTC-C-54000-P", 540, "C", 14, "P", 108, 55, 600, <<1, 10>>, <<60, 1>>)
PD54 == Opt("BTC-D-54000-P", 540, "D", 25, "P", 108, 55, 600, <<1, 10>>, <<60, 1>>)

\* Option lists: none; one whose options all fail a test other than the
\* cap (a call, 14 days, a reference price above 1.15 strikes and below
\* the strike, a yield below 5 and one of 292); two with options on both
\* sides of the caps.
OptLists ==
    { <<>>,
      <<CA54, PC54, PA50, PA62, PB58, PD54>>,
      <<PB54, PA54, PB60, PA60>>,
      <<PA60, CA54, PD54, PB54, PA54, PA50>> }
Caps == {20, 40, 100}

\* The component after its first render: no options, no trades, Auto.
InitFeed ==
    /\ pc = "computed"
    /\ NoFeed
    /\ NoFetch
    /\ NoLadder
    /\ NoRank
    /\ NoComb
    /\ NoPrice

\* Lines 123-146: go() ends in setOpts(arr) with the options parsed from
\* the answer, or leaves opts alone when the request fails.  The effect of
\* line 148 is run after the render that follows.
go ==
    /\ pc = "computed"
    /\ \E o \in OptLists : opts' = o
    /\ pc' = "effect"
    /\ UNCHANGED <<trades, dvolVal, numLegs, allowRep, ret, ret2, trades0,
                   cands, ranked, arr, kk, groups, priceCall, priceOut, sweep,
                   stack, pending, maxPexCap, closure, fetchVars>>

\* The P(exercise) slider: setMaxPexCap.
setMaxPexCap ==
    /\ pc = "computed"
    /\ \E c \in Caps : c # maxPexCap /\ maxPexCap' = c
    /\ pc' = "effect"
    /\ UNCHANGED <<trades, dvolVal, numLegs, allowRep, ret, ret2, trades0,
                   cands, ranked, arr, kk, groups, priceCall, priceOut, sweep,
                   stack, pending, opts, closure, fetchVars>>

\* Lines 148-168: the effect run when opts or maxPexCap has changed.  With
\* no options it returns at once and the list stays; else it defines
\* compute over the values of this render and calls it.
suggestedTradesEffect ==
    /\ pc = "effect"
    /\ IF Len(opts) = 0
       THEN UNCHANGED <<trades, closure>>
       ELSE /\ trades' = compute(opts, maxPexCap, numLegs)
            /\ closure' = [maxPexCap |-> maxPexCap, numLegs |-> numLegs]
    /\ pc' = "start"
    /\ UNCHANGED <<dvolVal, numLegs, allowRep, ret, ret2, trades0, cands,
                   ranked, arr, kk, groups, priceCall, priceOut, sweep,
                   stack, pending, opts, maxPexCap, fetchVars>>

\* Line 166: the interval calls the compute of the last effect run, which
\* there is while opts is not empty.
tick ==
    /\ pc = "computed"
    /\ Len(opts) # 0
    /\ trades' = compute(opts, closure.maxPexCap, closure.numLegs)
    /\ pc' = "start"
    /\ UNCHANGED <<dvolVal, numLegs, allowRep, ret, ret2, trades0, cands,
                   ranked, arr, kk, groups, priceCall, priceOut, sweep,
                   stack, pending, feedVars, fetchVars>>

\* The leg-count and repetition controls: the effect does not depend on
\* them, computedHedged does.
setNumLegs ==
    /\ pc = "computed"
    /\ \E n \in 0..MaxFeedLegs : n # numLegs /\ numLegs' = n
    /\ pc' = "start"
    /\ UNCHANGED <<trades, dvolVal, allowRep, ret, ret2, trades0, cands,
                   ranked, arr, kk, groups, priceCall, priceOut, sweep,
                   stack, pending, feedVars, fetchVars>>

setAllowRep ==
    /\ pc = "computed"
    /\ allowRep' = ~allowRep
    /\ pc' = "start"
    /\ UNCHANGED <<trades, dvolVal, numLegs, ret, ret2, trades0, cands,
                   ranked, arr, kk, groups, priceCall, priceOut, sweep,
                   stack, pending, feedVars, fetchVars>>

\* Each change is followed by the render in which computedHedged is
\* recomputed from the trades of that render.
NextFeed ==
    \/ go
    \/ setMaxPexCap
    \/ suggestedTradesEffect
    \/ tick
    \/ setNumLegs
    \/ setAllowRep
    \/ computedHedged

SpecFeed == InitFeed /\ [][NextFeed]_vars

(***************************************************************************)
(* Properties                                                              *)
(***************************************************************************)
Returned == pc \in {"called", "again"}
InRange == numLegs \in 1..5
DistinctLegs(tr) == Cardinality({LegKey(tr[i]) : i \in 1..Len(tr)})
IsLadder == Returned /\ ret.kind = "ladder"
Ladder == ret.value[1]

\* C1: the ladder buildOptimalLadder returns has a score at least as large
\* as the score rankLadders gave to every group generated in the call.
C1_TopScoreIsMax ==
    (IsLadder /\ InRange) =>
        /\ Len(ret.ranked) = Len(ret.candidates)
        /\ \A i \in 1..Len(ret.candidates) :
              \E j \in 1..Len(ret.ranked) :
                 /\ ret.ranked[j].legs = ret.candidates[i].legs
                 /\ ret.ranked[j].factors = ret.candidates[i].factors
                 /\ RLe(ret.ranked[j].score, Ladder.score)

C1_Witness ==
    /\ IsLadder /\ InRange
    /\ \E j \in 1..Len(ret.ranked) : RLt(ret.ranked[j].score, Ladder.score)
    /\ \E i, j \in 1..Len(ret.candidates) :
          ret.candidates[i].legs[1].expiry # ret.candidates[j].legs[1].expiry

\* C2: without repetition, fewer legs distinct by (strike, expiry) than
\* numLegs gives null, also when the raw list has numLegs entries or more.
C2_TooFewDistinctIsNull ==
    (pc # "start" /\ InRange /\ ~allowRep /\ DistinctLegs(trades0) < numLegs)
        => (Returned /\ ret.kind = "null")

C2_Witness ==
    /\ Returned /\ InRange /\ ~allowRep
    /\ Len(trades0) >= numLegs
    /\ DistinctLegs(trades0) < numLegs
    /\ ret.kind = "null"

\* C3: for numLegs in 1..5 a ladder is returned exactly when the pool can
\* satisfy the request (numLegs distinct legs without repetition, one leg
\* with repetition); otherwise the result is null.
CanSatisfy ==
    \/ ~allowRep /\ DistinctLegs(trades0) >= numLegs
    \/ allowRep /\ Len(trades0) >= 1

C3_LadderIffSatisfiable ==
    (pc # "start" /\ InRange) =>
        /\ Returned
        /\ CanSatisfy => ret.kind = "ladder"
        /\ ~CanSatisfy => ret.kind = "null"

C3_Witness ==
    /\ Returned /\ ~allowRep /\ numLegs = 5
    /\ DistinctLegs(trades0) = 5
    /\ ret.kind = "ladder"

\* C4: an empty leg list gives null and no error, for numLegs in 1..5 and
\* both repetition policies.
C4_EmptyIsNull ==
    (pc # "start" /\ InRange /\ trades0 = <<>>)
        => (Returned /\ ret.kind = "null")

C4_Witness ==
    /\ Returned /\ trades0 = <<>> /\ allowRep /\ numLegs = 5
    /\ ret.kind = "null"

\* C5: a returned ladder has exactly numLegs legs (at least one), each a
\* leg of the input list, pairwise distinct by (strike, expiry) when
\* repetition is not allowed.
C5_LadderShape ==
    IsLadder =>
        /\ Len(Ladder.legs) = numLegs
        /\ Len(Ladder.legs) >= 1
        /\ \A i \in 1..Len(Ladder.legs) :
              \E j \in 1..Len(trades0) : trades0[j] = Ladder.legs[i]
        /\ ~allowRep =>
              \A i, j \in 1..Len(Ladder.legs) :
                 i # j => LegKey(Ladder.legs[i]) # LegKey(Ladder.legs[j])

C5_Witness ==
    /\ IsLadder /\ ~allowRep /\ numLegs >= 2
    /\ DistinctLegs(trades0) < Len(trades0)

C7_ScoresInRange ==
    pc = "ranked" =>
        \A i \in 1..Len(ranked) :
            RLe(RZero, ranked[i].score) /\ RLe(ranked[i].score, RTen)

C7_Witness ==
    /\ pc = "ranked"
    /\ \E i, j \in 1..Len(ranked) :
          ranked[i].score = RZero /\ ranked[j].score = RTen

\* C8: a batch whose candidates all have the same six factor values gets
\* the score 5 for every candidate.
SameFactors == \A i, j \in 1..Len(cands) : cands[i].factors = cands[j].factors

C8_IdenticalBatchScoresFive ==
    (pc = "ranked" /\ Len(cands) >= 1 /\ SameFactors) =>
        \A i \in 1..Len(ranked) : ranked[i].score = <<5, 1>>

C8_Witness ==
    /\ pc = "ranked" /\ Len(cands) >= 2 /\ SameFactors
    /\ cands[1] # cands[2]
    /\ Len(ranked) = Len(cands)

\* C9: rankLadders returns every input candidate exactly once, by
\* non-increasing score, candidates of equal score in their input order.
Perms(n) == {p \in [1..n -> 1..n] : \A i, j \in 1..n : i # j => p[i] # p[j]}

SameCandidate(r, c) ==
    /\ r.legs = c.legs /\ r.factors = c.factors /\ r.ev = c.ev
    /\ r.evAnnual = c.evAnnual /\ r.volEdge = c.volEdge
    /\ r.thetaEff = c.thetaEff /\ r.riskReturn = c.riskReturn
    /\ r.kelly = c.kelly /\ r.diversification = c.diversification
    /\ r.probAllOTM = c.probAllOTM /\ r.totalPrem = c.totalPrem
    /\ r.avgApy = c.avgApy

C9_StableDescendingPermutation ==
    pc = "ranked" =>
        /\ Len(ranked) = Len(cands)
        /\ \E p \in Perms(Len(cands)) :
              /\ \A i \in 1..Len(cands) : SameCandidate(ranked[i], cands[p[i]])
              /\ \A i, j \in 1..Len(cands) :
                    i < j =>
                       /\ RLe(ranked[j].score, ranked[i].score)
                       /\ ranked[i].score = ranked[j].score => p[i] < p[j]

C9_Witness ==
    /\ pc = "ranked" /\ Len(cands) >= 3
    /\ ranked[1].legs # cands[1].legs
    /\ \E i, j \in 1..Len(ranked) :
          /\ i < j /\ ranked[i].score = ranked[j].score
          /\ ranked[i].legs # ranked[j].legs

\* C10: combinations(list, k) has C(n, k) groups for a list of n elements
\* and k >= 0: none exactly when k > n, the single empty group when k = 0.
RECURSIVE Fact(_)
Fact(n) == IF n = 0 THEN 1 ELSE n * Fact(n - 1)

Binom(n, k) == IF k > n THEN 0 ELSE Fact(n) \div (Fact(k) * Fact(n - k))

C10_CombinationCount ==
    pc = "combined" =>
        /\ Len(groups) = Binom(Len(arr), kk)
        /\ (groups = <<>>) <=> (kk > Len(arr))
        /\ kk = 0 => groups = << <<>> >>

C10_Witness ==
    /\ pc = "combined" /\ Len(arr) = 3 /\ kk = 2 /\ Len(groups) = 3

\* C11: combinationsWithRep(list, k) has C(n+k-1, k) groups for a list of n
\* elements and k >= 0, each of size k and made of list elements, pairwise
\* distinct as multisets when the list elements are distinct; no group
\* exactly when the list is empty and k > 0, the single empty group when
\* k = 0.
Count(g, e) == Cardinality({i \in 1..Len(g) : g[i] = e})
SameMultiset(g, h) == \A e \in Elems : Count(g, e) = Count(h, e)
DistinctElems(a) == \A i, j \in 1..Len(a) : i # j => a[i] # a[j]
MultisetCount(n, k) == IF k = 0 THEN 1 ELSE Binom(n + k - 1, k)

C11_MultisetCount ==
    pc = "combinedRep" =>
        /\ Len(groups) = MultisetCount(Len(arr), kk)
        /\ \A i \in 1..Len(groups) :
              /\ Len(groups[i]) = kk
              /\ \A p \in 1..kk : \E q \in 1..Len(arr) : groups[i][p] = arr[q]
        /\ DistinctElems(arr) =>
              \A i, j \in 1..Len(groups) :
                 i # j => ~SameMultiset(groups[i], groups[j])
        /\ (groups = <<>>) <=> (arr = <<>> /\ kk > 0)
        /\ kk = 0 => groups = << <<>> >>

C11_Witness ==
    /\ pc = "combinedRep" /\ Len(arr) = 3 /\ DistinctElems(arr) /\ kk = 2
    /\ Len(groups) = 6
    /\ \E i \in 1..Len(groups) : groups[i][1] = groups[i][2]

\* C12: combinations(list, k) returns, for every strictly increasing choice
\* of k positions, the elements at those positions in that order, once per
\* choice and nothing else; for a list of distinct elements the set of
\* groups, each taken as a set, is the same for every permutation of the
\* list.
IncSeqs(n, k) ==
    {P \in [1..k -> 1..n] : \A i, j \in 1..k : i < j => P[i] < P[j]}
Pick(a, P) == [i \in 1..Len(P) |-> a[P[i]]]
AsSet(g) == {g[i] : i \in 1..Len(g)}
GroupSets(gs) == {AsSet(gs[i]) : i \in 1..Len(gs)}
Permuted(a, p) == [i \in 1..Len(a) |-> a[p[i]]]

C12_SubsetsOnceInOrder ==
    pc = "combined" =>
        /\ \A P \in IncSeqs(Len(arr), kk) :
              Cardinality({i \in 1..Len(groups) : groups[i] = Pick(arr, P)})
                = Cardinality({Q \in IncSeqs(Len(arr), kk) :
                                  Pick(arr, Q) = Pick(arr, P)})
        /\ \A i \in 1..Len(groups) :
              \E P \in IncSeqs(Len(arr), kk) : groups[i] = Pick(arr, P)
        /\ DistinctElems(arr) =>
              \A p \in Perms(Len(arr)) :
                 GroupSets(combinations(Permuted(arr, p), kk))
                    = GroupSets(groups)

C12_Witness ==
    /\ pc = "combined" /\ arr = <<"c", "a", "b">> /\ kk = 2
    /\ groups = << <<"c", "a">>, <<"c", "b">>, <<"a", "b">> >>

\* C13: pEx and conditionalTailLoss return 0 and bsGreeks returns the
\* all-zero struct when T <= 0 or sigma <= 0, and putApyHedged returns 0
\* when d <= 0 or k <= 0, whatever the other arguments are.
Priced(fn) == pc = "priced" /\ priceCall.fn = fn
BsGuard == RLe(priceCall.T, RZero) \/ RLe(priceCall.sigma, RZero)

C13_NonPositiveGivesZero ==
    /\ (Priced("pEx") /\ BsGuard) => priceOut = <<RZero>>
    /\ (Priced("conditionalTailLoss") /\ BsGuard) => priceOut = <<RZero>>
    /\ (Priced("bsGreeks") /\ BsGuard) =>
          priceOut = Greeks(<<RZero>>, <<RZero>>, <<RZero>>, <<RZero>>)
    /\ (Priced("putApyHedged")
          /\ (RLe(priceCall.d, RZero) \/ RLe(priceCall.k, RZero))) =>
          priceOut = <<RZero>>

C13_Witness ==
    /\ Priced("pEx") /\ priceCall.T = RZero /\ RLt(RZero, priceCall.sigma)
    /\ priceCall.K = RZero /\ priceCall.S = RZero
    /\ priceOut = <<RZero>>

\* C14: on legs that satisfy the input contract and any volatility index,
\* every number scoreLadder and rankLadders produce is finite; riskReturn
\* is 0 when totalRisk is not positive, kelly is 0 when totalPrem is not
\* positive, and a factor whose range over the batch does not exceed 1e-10
\* counts with the norm 0.5 in every score.
NumFields(c) ==
    {c.ev, c.evAnnual, c.volEdge, c.thetaEff, c.riskReturn, c.kelly,
     c.diversification, c.probAllOTM, c.totalPrem, c.avgApy}
        \cup {c.factors[i] : i \in 1..nFactors}

TotalRiskOf(legs) ==
    RSum([i \in 1..Len(legs) |->
            RMul(legs[i].probExercise, RMax(RZero, LegTail(legs[i])))])

FactorMin(i) == RMinOf(Arr([c \in 1..Len(cands) |-> cands[c].factors[i]]))
FactorMax(i) == RMaxOf(Arr([c \in 1..Len(cands) |-> cands[c].factors[i]]))
Tied(i) == ~GtEps(RSub(FactorMax(i), FactorMin(i)))

ExpectedNorm(r, i) ==
    IF Tied(i) THEN <<1, 2>>
    ELSE RDiv(RSub(r.factors[i], FactorMin(i)),
              RSub(FactorMax(i), FactorMin(i)))

C14_NoDivisionByZero ==
    /\ pc \in {"scored", "scoredRanked"} =>
          \A i \in 1..Len(cands) :
             /\ \A x \in NumFields(cands[i]) : Finite(x)
             /\ RLe(TotalRiskOf(groups[i]), RZero)
                   => cands[i].riskReturn = RZero
             /\ RLe(cands[i].totalPrem, RZero) => cands[i].kelly = RZero
    /\ pc = "scoredRanked" =>
          /\ Len(ranked) = Len(cands)
          /\ \A j \in 1..Len(ranked) :
                /\ Finite(ranked[j].score)
                /\ ranked[j].score =
                      RMul(RTen, RSum([i \in 1..nFactors |->
                                 RMul(W[i], ExpectedNorm(ranked[j], i))]))

C14_Witness ==
    /\ pc = "scoredRanked" /\ Len(cands) = 2
    /\ \E i \in 1..2 : TotalRiskOf(groups[i]) = RZero
    /\ \E i \in 1..2 : cands[i].totalPrem = RZero
    /\ \E i \in 1..nFactors : Tied(i)
    /\ \E i \in 1..nFactors : ~Tied(i)
    /\ dvolVal = <<0>>

\* C15: normCdf(0) equals 0.5.
C15_NormCdfZeroIsHalf ==
    (Priced("normCdf") /\ priceCall.x = RZero)
        => priceOut.value = << <<1, 2>> >>

\* C16: normCdf evaluates the polynomial at the argument the approximation
\* requires.  The Abramowitz-Stegun formula gives erf(z) as
\* 1 - poly(t) exp(-z^2) with t = 1 / (1 + p z), and the normal distribution
\* is (1 + erf(x / sqrt 2)) / 2: the z that t is built from and the z of the
\* exponential are the same number, whose square is x^2 / 2.
C16_PolynomialArgument ==
    Priced("normCdf") =>
        RMul(priceOut.tArg, priceOut.tArg) = RNeg(priceOut.expArg)

\* C17: with numLegs = 0 and a non-empty leg list the caller calls
\* buildOptimalLadder for the leg counts 1..5 and keeps a result of the
\* highest score among the non-null results, the one of the smallest leg
\* count among equal scores; the kept result is null exactly when all five
\* results are null (with an empty list nothing is called and null is kept).
Kept == ret.value
AutoMode == pc = "computed" /\ numLegs = 0

C17_AutoKeepsBest ==
    /\ (AutoMode /\ trades = <<>>) => (sweep = <<>> /\ Kept = <<>>)
    /\ (AutoMode /\ trades # <<>>) =>
          /\ Len(sweep) = 5
          /\ (Kept = <<>>) <=> (\A n \in 1..5 : sweep[n] = <<>>)
          /\ Kept # <<>> =>
                \E n \in 1..5 :
                   /\ Kept = sweep[n]
                   /\ \A m \in 1..5 :
                         sweep[m] # <<>> =>
                            /\ RLe(sweep[m][1].score, Kept[1].score)
                            /\ m < n =>
                                  RLt(sweep[m][1].score, Kept[1].score)

C17_Witness ==
    /\ AutoMode /\ Kept # <<>>
    /\ Len(Kept[1].legs) = 2
    /\ \E m \in 1..5 : sweep[m] = <<>>
    /\ sweep[1] # <<>> /\ RLt(sweep[1][1].score, Kept[1].score)
    /\ sweep[3] # <<>> /\ RLt(sweep[3][1].score, Kept[1].score)

\* C18: every call of buildOptimalLadder with numLegs in 1..5 and every
\* recursion of combinations and combinationsWithRep on a list and a
\* k >= 0 comes to its end: once the pools are built, each step (a call of
\* the recursion, the start of the next pool, the return) lowers a measure
\* that is a natural number, so a run has no more steps than the measure
\* it starts with.  A call on a list of length n for size k weighs
\* 2^(n+k+1) - 1, one more than its two calls together.
RECURSIVE Pow2(_)
Pow2(n) == IF n = 0 THEN 1 ELSE 2 * Pow2(n - 1)
CallWeight(a, k) == Pow2(Len(a) + k + 1) - 1

RECURSIVE StackWeight(_)
StackWeight(st) ==
    IF st = <<>> THEN 0
    ELSE CallWeight(Head(st).a, Head(st).k) + StackWeight(Tail(st))

RECURSIVE PendingWeight(_, _)
PendingWeight(ps, k) ==
    IF ps = <<>> THEN 0
    ELSE CallWeight(Head(ps), k) + 1 + PendingWeight(Tail(ps), k)

Measure(p, st, ps, k) ==
    IF p \in {"done", "returned"} THEN 0
    ELSE 1 + StackWeight(st) + PendingWeight(ps, k)

MeasureFalls ==
    pc \in {"loop", "recurse"} =>
        /\ Measure(pc', stack', pending', kk')
              < Measure(pc, stack, pending, kk)
        /\ Measure(pc', stack', pending', kk') >= 0

C18_Terminates == [][MeasureFalls]_vars

C18_Witness ==
    /\ pc = "done" /\ allowRep /\ numLegs = 2 /\ Len(groups) >= 6
    /\ ret.kind = "ladder"

\* The calls of a run return, in order, the groups the functions return.
TermAgrees ==
    /\ pc = "returned" => groups = Combos(arr, kk, allowRep)
    /\ (pc = "done" /\ ret.kind = "ladder") =>
          Len(groups) >= Len(ret.candidates)

\* C19: the batch one call of buildOptimalLadder hands to rankLadders holds
\* no two groups with the same multiset of (strike, expiry) legs.
KeyCount(legs, key) ==
    Cardinality({i \in 1..Len(legs) : LegKey(legs[i]) = key})
SameKeyMultiset(g, h) ==
    /\ Len(g) = Len(h)
    /\ \A i \in 1..Len(g) :
          KeyCount(g, LegKey(g[i])) = KeyCount(h, LegKey(g[i]))

C19_NoGroupScoredTwice ==
    (Returned /\ InRange) =>
        \A i, j \in 1..Len(ret.candidates) :
            i # j => ~SameKeyMultiset(ret.candidates[i].legs,
                                      ret.candidates[j].legs)

\* C20: of several input legs with the same (strike, expiry) only the first
\* in input order is used: every leg of every scored group, and of the
\* returned ladder, is the first leg of its key among the HedgedCSP legs of
\* the input.
OfTypeIn == SelectSeq(trades0, LAMBDA t : t.type = "HedgedCSP")
FirstOfKey(t) ==
    \E i \in 1..Len(OfTypeIn) :
        /\ OfTypeIn[i] = t
        /\ \A j \in 1..(i - 1) : LegKey(OfTypeIn[j]) # LegKey(t)
AllFirstOfKey(legs) == \A i \in 1..Len(legs) : FirstOfKey(legs[i])

C20_FirstDuplicateKept ==
    (Returned /\ InRange) =>
        /\ \A c \in 1..Len(ret.candidates) :
              AllFirstOfKey(ret.candidates[c].legs)
        /\ \A v \in 1..Len(ret.value) : AllFirstOfKey(ret.value[v].legs)

C20_Witness ==
    /\ Returned /\ InRange /\ ret.kind = "ladder"
    /\ \E i, j \in 1..Len(trades0) :
          /\ i < j
          /\ LegKey(trades0[i]) = LegKey(trades0[j])
          /\ trades0[i] # trades0[j]
          /\ \E k \in 1..Len(ret.value[1].legs) :
                ret.value[1].legs[k] = trades0[i]

\* C21: every group of the same-expiry step is made of deduplicated legs of
\* one expiry that are among the perExpiryCap highest strikes of that
\* expiry, and every group of the cross-expiry step is made of deduplicated
\* legs among the topCap highest yields.
DedupLegs ==
    {OfTypeIn[i] : i \in {j \in 1..Len(OfTypeIn) : FirstOfKey(OfTypeIn[j])}}
HigherStrikes(t) ==
    Cardinality({u \in DedupLegs : u.expiry = t.expiry /\ u.strike > t.strike})
HigherYields(t) == Cardinality({u \in DedupLegs : u.apy > t.apy})
StatedPerExpiryCap ==
    IF allowRep THEN (IF numLegs + 2 < 5 THEN numLegs + 2 ELSE 5)
    ELSE (IF numLegs + 5 > 8 THEN numLegs + 5 ELSE 8)
StatedTopCap == IF allowRep THEN 8 ELSE 15
InExpiryPool == {t \in DedupLegs : HigherStrikes(t) < StatedPerExpiryCap}
InTopPool == {t \in DedupLegs : HigherYields(t) < StatedTopCap}
LegsWithin(g, pool) == \A i \in 1..Len(g) : g[i] \in pool

C21_GroupsFromCappedPools ==
    /\ pc = "sameExpiry" =>
          LET pool == InExpiryPool
          IN  \A k \in 1..Len(groups) :
                  /\ LegsWithin(groups[k], pool)
                  /\ \A i \in 1..Len(groups[k]) :
                        groups[k][i].expiry = groups[k][1].expiry
    /\ pc = "crossExpiry" =>
          LET pool == InTopPool
          IN  \A k \in 1..Len(groups) : LegsWithin(groups[k], pool)

C21_Witness ==
    /\ pc = "crossExpiry" /\ ~allowRep /\ Len(groups) > 0
    /\ InTopPool # DedupLegs
    /\ InExpiryPool # DedupLegs
    /\ Len(OfTypeIn) > Cardinality(DedupLegs)

\* C22: the score of every ranked candidate is 10 times the weighted sum of
\* its six normalised factors, clamped to [0, 10]; a factor is normalised
\* against the minimum and maximum of the whole batch, and counts 0.5 when
\* the batch range of the factor does not exceed 1e-10.
StatedW ==
    <<Rat(30, 100), Rat(20, 100), Rat(20, 100), Rat(15, 100), Rat(10, 100),
      Rat(5, 100)>>
BatchValues(i) == {cands[c].factors[i] : c \in 1..Len(cands)}
BatchMin(i) == CHOOSE v \in BatchValues(i) : \A u \in BatchValues(i) : RLe(v, u)
BatchMax(i) == CHOOSE v \in BatchValues(i) : \A u \in BatchValues(i) : RLe(u, v)
StatedNorm(f, i) ==
    IF GtEps(RSub(BatchMax(i), BatchMin(i)))
    THEN RDiv(RSub(f[i], BatchMin(i)), RSub(BatchMax(i), BatchMin(i)))
    ELSE <<1, 2>>
StatedTerm(f, i) == RMul(StatedW[i], StatedNorm(f, i))
StatedSum(f) ==
    RAdd(RAdd(RAdd(StatedTerm(f, 1), StatedTerm(f, 2)),
              RAdd(StatedTerm(f, 3), StatedTerm(f, 4))),
         RAdd(StatedTerm(f, 5), StatedTerm(f, 6)))
Clamp10(x) == IF RLt(x, RZero) THEN RZero ELSE IF RLt(RTen, x) THEN RTen ELSE x
StatedScore(f) == Clamp10(RMul(RTen, StatedSum(f)))

C22_ScoreIsWeightedSum ==
    pc = "ranked" =>
        \A r \in 1..Len(ranked) :
            ranked[r].score = StatedScore(ranked[r].factors)

C22_Witness ==
    /\ pc = "ranked" /\ Len(cands) >= 3
    /\ \E r \in 1..Len(ranked) :
          /\ RLt(RZero, ranked[r].score) /\ RLt(ranked[r].score, RTen)
          /\ ranked[r].score # <<5, 1>>
          /\ \E i \in 1..6 : BatchMin(i) = BatchMax(i)
          /\ \E i \in 1..6 :
                /\ RLt(BatchMin(i), ranked[r].factors[i])
                /\ RLt(ranked[r].factors[i], BatchMax(i))

\* C23: topFactor of a ranked candidate names the earliest factor, in the
\* order Expected Value, Vol Edge, Risk/Return, Theta, Kelly,
\* Diversification, whose weighted normalised term is the largest of the
\* six; that is Expected Value when all six terms are 0.
StatedNames ==
    <<"Expected Value", "Vol Edge", "Risk/Return", "Theta", "Kelly",
      "Diversification">>
LargestTerm(f, i) == \A j \in 1..6 : RLe(StatedTerm(f, j), StatedTerm(f, i))
EarliestLargest(f) ==
    CHOOSE i \in 1..6 :
        LargestTerm(f, i) /\ \A j \in 1..(i - 1) : ~LargestTerm(f, j)

C23_TopFactorIsLargestTerm ==
    pc = "ranked" =>
        \A r \in 1..Len(ranked) :
            ranked[r].topFactor = StatedNames[EarliestLargest(ranked[r].factors)]

C23_Witness ==
    /\ pc = "ranked"
    /\ \E r \in 1..Len(ranked) :
          /\ ranked[r].topFactor = "Vol Edge"
          /\ LargestTerm(ranked[r].factors, 3)
    /\ \E r \in 1..Len(ranked) :
          /\ ranked[r].topFactor = "Expected Value"
          /\ \A i \in 1..6 : StatedTerm(ranked[r].factors, i) = RZero

\* C24: volEdge is the mean over the legs of (markIv - dv) / max(dv, 1),
\* where dv is the supplied index whatever its value, and 57 only when the
\* index is null.
StatedDv == IF dvolVal = <<>> THEN 57 ELSE dvolVal[1]
StatedVolEdge(legs) ==
    RDiv(RSum([i \in 1..Len(legs) |->
                  Rat(legs[i].markIv - StatedDv,
                      IF StatedDv > 1 THEN StatedDv ELSE 1)]),
         RInt(Len(legs)))

C24_SuppliedIndexUsed ==
    pc \in {"scored", "scoredRanked"} =>
        \A c \in 1..Len(cands) :
            cands[c].volEdge = StatedVolEdge(cands[c].legs)

\* C25: probAllOTM is 1 minus the largest probabilityOfExercise of the
\* legs; it is never below the product of (1 - probabilityOfExercise) over
\* the legs, and a group that is another group with one more leg never has
\* a larger probAllOTM.
LargestPex(legs) ==
    CHOOSE p \in {legs[i].probExercise : i \in 1..Len(legs)} :
        \A i \in 1..Len(legs) : RLe(legs[i].probExercise, p)
RECURSIVE ProductOTM(_)
ProductOTM(legs) ==
    IF legs = <<>> THEN RInt(1)
    ELSE RMul(RSub(RInt(1), Head(legs).probExercise), ProductOTM(Tail(legs)))
AddsALeg(longer, shorter) ==
    Len(longer) = Len(shorter) + 1 /\ SubSeq(longer, 1, Len(shorter)) = shorter

C25_ProbAllOTMIsOneMinusMax ==
    pc \in {"scored", "scoredRanked"} =>
        \A c \in 1..Len(cands) :
            /\ cands[c].probAllOTM = RSub(RInt(1), LargestPex(cands[c].legs))
            /\ RLe(ProductOTM(cands[c].legs), cands[c].probAllOTM)
            /\ \A d \in 1..Len(cands) :
                  AddsALeg(cands[c].legs, cands[d].legs) =>
                      RLe(cands[c].probAllOTM, cands[d].probAllOTM)

C25_Witness ==
    /\ pc = "scored"
    /\ \E c, d \in 1..Len(cands) :
          /\ AddsALeg(cands[c].legs, cands[d].legs)
          /\ RLt(cands[c].probAllOTM, cands[d].probAllOTM)
          /\ RLt(ProductOTM(cands[c].legs), cands[c].probAllOTM)
          /\ cands[c].legs[1].probExercise # LargestPex(cands[c].legs)

\* C27: the metrics of a scored group are those of every permutation of its
\* legs.  As stated, for all metrics; as amended, for all metrics but
\* diversification, which is divided by the reference price of the first
\* leg: the strike spread diversification * futuresPrice(legs[0]) is the
\* same for every permutation.
Rescored(legs, p) == scoreLadder(Arr(Permuted(legs, p)), dvolVal)
SameAggregates(a, b) ==
    /\ a.ev = b.ev /\ a.evAnnual = b.evAnnual /\ a.volEdge = b.volEdge
    /\ a.thetaEff = b.thetaEff /\ a.riskReturn = b.riskReturn
    /\ a.kelly = b.kelly /\ a.probAllOTM = b.probAllOTM
    /\ a.totalPrem = b.totalPrem /\ a.avgApy = b.avgApy
    /\ \A i \in 1..5 : a.factors[i] = b.factors[i]
StrikeSpread(a) ==
    RMul(a.diversification, RInt(a.legs[1].futuresPrice))

Rescorings(legs) == {Rescored(legs, p) : p \in Perms(Len(legs))}

C27_OrderIndependent ==
    pc = "scored" =>
        \A c \in 1..Len(cands) :
            \A r \in Rescorings(cands[c].legs) :
                /\ SameAggregates(r, cands[c])
                /\ r.diversification = cands[c].diversification
                /\ r.factors[6] = cands[c].factors[6]

C27_OrderIndependentButDiversification ==
    pc = "scored" =>
        \A c \in 1..Len(cands) :
            \A r \in Rescorings(cands[c].legs) :
                /\ SameAggregates(r, cands[c])
                /\ StrikeSpread(r) = StrikeSpread(cands[c])
                /\ r.factors[6] = r.diversification

C27_Witness ==
    /\ pc = "scored"
    /\ \E c \in 1..Len(cands) :
          /\ Len(cands[c].legs) = 2
          /\ cands[c].legs[1].futuresPrice # cands[c].legs[2].futuresPrice
          /\ cands[c].legs[1].strike # cands[c].legs[2].strike
          /\ cands[c].legs[1].dte # cands[c].legs[2].dte
          /\ Rescored(cands[c].legs, <<2, 1>>).diversification
                 # cands[c].diversification

\* C28: within one batch, a ranked candidate that is at least another on
\* each of the six factors has a score that is at least the other's, and a
\* candidate that holds the batch maximum on every factor whose batch range
\* exceeds 1e-10 is the first element of the ranking.
Dominates(a, b) == \A i \in 1..6 : RLe(b.factors[i], a.factors[i])
Spread(i) == GtEps(RSub(BatchMax(i), BatchMin(i)))
HoldsMaxima(r) == \A i \in 1..6 : Spread(i) => r.factors[i] = BatchMax(i)
ScoreMonotone ==
    \A a, b \in 1..Len(ranked) :
        Dominates(ranked[a], ranked[b]) =>
            RLe(ranked[b].score, ranked[a].score)

C28_DominantRankedFirst ==
    pc = "ranked" =>
        /\ ScoreMonotone
        /\ \A r \in 1..Len(ranked) : HoldsMaxima(ranked[r]) => r = 1

\* C28 as it holds: the score is monotone in the factors; a candidate that
\* holds every such maximum has the highest score of the batch, every
\* candidate that misses one of them scores strictly less, and only
\* candidates that hold them all, earlier in the batch, are ranked before it.
C28_DominantScoresHighest ==
    pc = "ranked" =>
        /\ ScoreMonotone
        /\ \A r \in 1..Len(ranked) :
              HoldsMaxima(ranked[r]) =>
                 /\ \A q \in 1..Len(ranked) :
                       /\ RLe(ranked[q].score, ranked[r].score)
                       /\ ~HoldsMaxima(ranked[q]) =>
                             RLt(ranked[q].score, ranked[r].score)
                 /\ \A q \in 1..(r - 1) : HoldsMaxima(ranked[q])
        /\ (\E c \in 1..Len(cands) : HoldsMaxima(cands[c])) =>
              /\ HoldsMaxima(ranked[1])
              /\ \E c \in 1..Len(cands) :
                    /\ SameCandidate(ranked[1], cands[c])
                    /\ \A b \in 1..(c - 1) : ~HoldsMaxima(cands[b])

C28_Witness ==
    /\ pc = "ranked" /\ Len(cands) = 3
    /\ HoldsMaxima(ranked[1]) /\ HoldsMaxima(ranked[2])
    /\ ~HoldsMaxima(ranked[3])
    /\ ranked[1].legs # ranked[2].legs
    /\ ranked[1].legs # cands[1].legs
    /\ \E i \in 1..6 : Spread(i)
    /\ \E i \in 1..6 : ~Spread(i)
    /\ \E a, b \in 1..3 :
          /\ Dominates(ranked[a], ranked[b])
          /\ RLt(ranked[b].score, ranked[a].score)

\* C29: the highlighted keys are exactly the keys HP-<strike>-<expiry> of
\* the legs of the computed ladder when there is one and its score is at
\* least 5, and there are none otherwise; keys are highlighted exactly when
\* the ladder card shows a ladder, which is then the computed one.
KeysOf(l) == {<<"HP", t.strike, t.expiry>> : t \in {l.legs[i] : i \in 1..Len(l.legs)}}
AtLeastFive(l) == ~RLt(l.score, RInt(5)) /\ ~IsNaN(l.score)

C29_HighlightsMatchCard ==
    pc = "computed" =>
        /\ (Kept # <<>> /\ AtLeastFive(Kept[1])) =>
              /\ recommendedKeys = KeysOf(Kept[1])
              /\ recommendedKeys # {}
              /\ filteredHedged = Kept
        /\ ~(Kept # <<>> /\ AtLeastFive(Kept[1])) =>
              /\ recommendedKeys = {}
              /\ filteredHedged = <<>>
        /\ (recommendedKeys # {}) <=> CardShowsLadder

C29_Witness ==
    /\ pc = "computed" /\ Kept # <<>>
    /\ Len(Kept[1].legs) = 2
    /\ Cardinality(recommendedKeys) = 2
    /\ CardShowsLadder

C29_WitnessBelowFive ==
    /\ pc = "computed" /\ Kept # <<>>
    /\ RLt(Kept[1].score, RInt(5))
    /\ recommendedKeys = {} /\ ~CardShowsLadder

\* C30: fetchMorphoRates never rejects and, as the request and the parsing
\* settle, goes on to resolve: to {cbBtcSupply: 0, usdcBorrow: 3.5}
\* when the request failed, the body could not be parsed or the parsed data
\* has no first row (a first element of result.rows that counts as true),
\* and to {cbBtcSupply: 0, usdcBorrow: borrow_apy * 100} of that row
\* otherwise.
RequestFailed == response = <<"rejected">>
Unparsable == response # <<"rejected">> /\ response[2][1] = "text"
Body == response[2][2]
IsObject(v) == v[1] = "object"
StatedRows ==
    IF /\ IsObject(Body) /\ "result" \in DOMAIN Body[2]
       /\ IsObject(Body[2].result) /\ "rows" \in DOMAIN Body[2].result[2]
    THEN Body[2].result[2].rows
    ELSE <<"undefined", 0>>
StatedFirstRow ==
    CASE StatedRows[1] \in {"array", "string"} /\ StatedRows[2] # <<>> ->
             IF StatedRows[1] = "array" THEN StatedRows[2][1]
             ELSE <<"string", <<StatedRows[2][1]>>>>
      [] IsObject(StatedRows) /\ "0" \in DOMAIN StatedRows[2] ->
             StatedRows[2]["0"]
      [] OTHER -> <<"undefined", 0>>
HasFirstRow ==
    CASE StatedFirstRow[1] \in {"undefined", "null"} -> FALSE
      [] StatedFirstRow[1] = "boolean" -> StatedFirstRow[2]
      [] StatedFirstRow[1] = "number" -> StatedFirstRow[2] # <<0, 1>>
      [] StatedFirstRow[1] = "string" -> StatedFirstRow[2] # <<>>
      [] OTHER -> TRUE
StatedBorrowApy ==
    IF IsObject(StatedFirstRow) /\ "borrow_apy" \in DOMAIN StatedFirstRow[2]
    THEN ToNumber(StatedFirstRow[2].borrow_apy)
    ELSE <<0, 0>>
StatedRates ==
    IF RequestFailed \/ Unparsable \/ ~HasFirstRow
    THEN [cbBtcSupply |-> <<0, 1>>, usdcBorrow |-> <<7, 2>>]
    ELSE [cbBtcSupply |-> <<0, 1>>,
          usdcBorrow |-> RMul(StatedBorrowApy, <<100, 1>>)]
Settles ==
    /\ pc \in {"start", "fetched", "parsed", "caught", "done"}
    /\ pc # "done" => settled = <<>>
    /\ pc = "done" => settled = <<"resolved", StatedRates>>

\* The steps left before the promise is settled: every state short of
\* "done" has a step to take (each guard is its pc alone), and every step
\* leaves fewer, so a run in which the awaited promises settle ends in
\* "done" after at most four steps.
Remaining(p) ==
    CASE p = "start" -> 4 [] p = "fetched" -> 3 [] p = "parsed" -> 2
      [] p = "caught" -> 1 [] OTHER -> 0

C30_AlwaysResolves == []Settles /\ [][Remaining(pc') < Remaining(pc)]_vars

C30_Witness ==
    /\ pc = "done"
    /\ ~RequestFailed /\ ~Unparsable /\ HasFirstRow
    /\ StatedRows[1] = "array" /\ Len(StatedRows[2]) = 2
    /\ settled[2].usdcBorrow = <<3, 1>>

C30_WitnessFallback ==
    /\ pc = "done"
    /\ ~RequestFailed /\ ~Unparsable
    /\ StatedRows[1] = "array" /\ Len(StatedRows[2]) = 1
    /\ ~HasFirstRow
    /\ settled[2].usdcBorrow = <<7, 2>>

\* C26: every leg of the candidate list is a put of the option list it was
\* computed from, with dte >= 15, a reference price between 1.00 and 1.15
\* times the strike, a yield in (5, 200] and a probability of exercise not
\* above a hundredth of the cap the list was computed under; the legs of
\* the ladder on display are legs of that list, so none of them exceeds
\* that cap either.
NotAboveCap(t, cap) == t.probExercise[1] * 100 <= cap * t.probExercise[2]
WithinFilters(t, cap) ==
    /\ t.dte >= 15
    /\ t.strike <= t.futuresPrice
    /\ t.futuresPrice * 100 <= t.strike * 115
    /\ 5 < t.apy /\ t.apy <= 200
    /\ NotAboveCap(t, cap)
IsPutOf(t, os) ==
    \E j \in 1..Len(os) :
        /\ os[j].type = "P" /\ os[j].instrument = t.instrument
        /\ os[j].strike = t.strike /\ os[j].expiry = t.expiry
        /\ os[j].dte = t.dte /\ os[j].pex = t.probExercise
ListCap == closure.maxPexCap
ListWithinFilters ==
    \A i \in 1..Len(trades) : WithinFilters(trades[i], ListCap)
LadderOnDisplay == pc \in {"computed", "effect"} /\ ret.value # <<>>
LadderWithinCap ==
    LadderOnDisplay =>
        \A l \in 1..Len(ret.value[1].legs) :
            /\ \E i \in 1..Len(trades) : trades[i] = ret.value[1].legs[l]
            /\ NotAboveCap(ret.value[1].legs[l], ListCap)
ListRecomputed ==
    trades' # trades =>
        /\ closure'.maxPexCap = maxPexCap
        /\ \A i \in 1..Len(trades') : IsPutOf(trades'[i], opts')

C26_LegsWithinListCap ==
    [](ListWithinFilters /\ LadderWithinCap) /\ [][ListRecomputed]_vars

\* A two-leg ladder under the cap 20 with a leg exactly at the cap, from an
\* option list holding a put that passes every other test and is above it.
C26_Witness ==
    /\ pc = "computed" /\ ret.value # <<>>
    /\ Len(ret.value[1].legs) = 2
    /\ ListCap = 20 /\ maxPexCap = 20
    /\ \E l \in 1..2 : ret.value[1].legs[l].probExercise = <<1, 5>>
    /\ \E j \in 1..Len(opts) :
          /\ opts[j].type = "P" /\ opts[j].dte >= 15
          /\ opts[j].strike = 600 /\ opts[j].futuresPrice = 600
          /\ opts[j].pex = <<2, 5>>
          /\ \A i \in 1..Len(trades) : trades[i].instrument # opts[j].instrument

\* The list outlives its options: with opts emptied the effect returns at
\* once, and a ladder leg may then exceed the cap now set on the slider.
C26_WitnessStaleList ==
    /\ pc = "computed" /\ ret.value # <<>>
    /\ opts = <<>> /\ trades # <<>>
    /\ maxPexCap < ListCap
    /\ \E l \in 1..Len(ret.value[1].legs) :
          ~NotAboveCap(ret.value[1].legs[l], maxPexCap)

====
